---- MODULE Spec2Model ----
(***************************************************************************)
(* Verification model of the VBDecompiler pipeline: control-flow           *)
(* structurer, P-Code lifter, P-Code decoder, source emitter, PE parser    *)
(* and x86 decoder.  Every component is a state machine over its own       *)
(* variables; a specification of one component keeps the variables of the  *)
(* other components at their idle value.                                   *)
(***************************************************************************)
EXTENDS Integers, Sequences, FiniteSets, TLC

VARIABLES
    fn,         \* structurer: the IRFunction handed to structureFunction
    sPhase,     \* structurer: "idle" | "ready" | "returned" | "overflow"
    sTree,      \* structurer: the StructuredNode tree returned
    lInstrs,    \* lifter: the instruction list handed to lift
    lPc,        \* lifter: index of the next instruction of the second pass
    lCtx,       \* lifter: the LiftContext
    lPhase,     \* lifter: "idle" | "ready" | "running" | "done" | "failed"
    lResult,    \* lifter: the function returned by lift, Null for nullptr
    lError,     \* lifter: lastError_
    pData,      \* P-Code decoder: the buffer given to disassemble
    pOffset,    \* P-Code decoder: the cursor of disassemble
    pAddress,   \* P-Code decoder: the address of the next instruction
    pInstrs,    \* P-Code decoder: the instructions collected so far
    pStart,     \* P-Code decoder: the cursor before the last disassembleOne
    pLast,      \* P-Code decoder: what the last disassembleOne returned
    pPhase,     \* P-Code decoder: "idle" | "running" | "returned"
    pError,     \* P-Code decoder: lastError_
    eExpr,      \* emitter: the IRExpression handed to generateExpression
    ePhase,     \* emitter: "idle" | "ready" | "done"
    eText,      \* emitter: the string generateExpression returned
    peHeaders,  \* PE parser: the section headers of the file, in file order
    peSections, \* PE parser: sections_
    pePhase,    \* PE parser: "idle" | "parsing" | "parsed" | "queried"
    peSection,  \* PE parser: index of the section the queried RVA was taken from
    peK,        \* PE parser: offset of the queried RVA in that section
    peRva,      \* PE parser: the argument of rvaToFileOffset
    peResult,   \* PE parser: what rvaToFileOffset returned, Null for nullopt,
                \* or the outcome of readAtRVA
    peFileSize, \* PE parser: fileData_.size()
    xData,      \* x86 decoder: the bytes given to disassembleOne
    xPhase,     \* x86 decoder: "idle" | "ready" | "done", or the running loop
    xLast,      \* x86 decoder: what disassembleOne returned, Null for nullptr
    xOffset,    \* x86 decoder: offset of disassemble / disassembleFunction
    bData,      \* ByteReader: data_
    bOffset,    \* ByteReader: offset_
    bLast,      \* ByteReader: the last call and its outcome
    bPhase,     \* ByteReader: "idle" | "ready" | "crashed"
    dFn,        \* decompiler: the IRFunction handed to decompile
    dPhase,     \* decompiler: "idle" | "ready" | "done" | "overflow"
    dTree,      \* decompiler: the StructuredNode tree of structureFunction
    dText,      \* decompiler: the lines of the text decompile returned
    tFunction,  \* type recovery: the IRFunction (parameters_, localVariables_,
                \* nextVariableId_, blocks_)
    tOrder,     \* type recovery: iteration order of the block map
    tBlock,     \* type recovery: position in tOrder of the block being analysed
    tStmt,      \* type recovery: position of the next statement in that block
    tTypes,     \* type recovery: variableTypes_
    tPhase,     \* type recovery: "idle" | "building" | "ready" | "analyzing" | "done"
    uPair,      \* unifyTypes: the two argument types
    uResult     \* unifyTypes: the type returned, Null before the call

structVars == <<fn, sPhase, sTree>>
liftVars == <<lInstrs, lPc, lCtx, lPhase, lResult, lError>>
pcodeVars == <<pData, pOffset, pAddress, pInstrs, pStart, pLast, pPhase, pError>>
emitVars == <<eExpr, ePhase, eText>>
peVars == <<peHeaders, peSections, pePhase, peSection, peK, peRva, peResult,
           peFileSize>>
x86Vars == <<xData, xPhase, xLast, xOffset>>
readerVars == <<bData, bOffset, bLast, bPhase>>
decompVars == <<dFn, dPhase, dTree, dText>>
typeVars == <<tFunction, tOrder, tBlock, tStmt, tTypes, tPhase>>
unifyVars == <<uPair, uResult>>
vars == <<structVars, liftVars, pcodeVars, emitVars, peVars, x86Vars,
          readerVars, decompVars, typeVars, unifyVars>>

(***************************************************************************)
(* Generic helpers                                                         *)
(***************************************************************************)
Range(s) == {s[i] : i \in 1..Len(s)}

IsInjective(s) == \A i, j \in 1..Len(s) : s[i] = s[j] => i = j

RECURSIVE SeqSum(_)
SeqSum(s) == IF s = <<>> THEN 0 ELSE Head(s) + SeqSum(Tail(s))

Count(s, x) == Cardinality({i \in 1..Len(s) : s[i] = x})

(***************************************************************************)
(* IR function as seen by the structurer                                   *)
(*                                                                         *)
(* A block is [succ, target]: succ is the iteration sequence of the        *)
(* block's std::unordered_set of successor ids (the order is fixed for a   *)
(* given set but unspecified, so it is chosen freely in Init); target is   *)
(* the target block id of the block's first BRANCH statement, or NoBlock   *)
(* when the block has no BRANCH statement.                                 *)
(***************************************************************************)
NumBlocks == 3

NoBlock == 0 - 1

BlockIds == 0 .. (NumBlocks - 1)

EntryBlockId == 0

\* a null StructuredNode pointer
Null == [kind |-> "NULL"]

\* outcome of a recursion that never returns
Overflow == [kind |-> "OVERFLOW"]

\* IRFunction::getBasicBlock
getBlockById(id, f) == IF id \in DOMAIN f THEN id ELSE NoBlock

\* IRBasicBlock::getSuccessors, as a set
Successors(f, b) == Range(f[b].succ)

\* the block has a BRANCH statement (then its statement list is not empty)
HasBranch(f, b) == f[b].target # NoBlock

(***************************************************************************)
(* ControlFlowStructurer::isBackEdge                                       *)
(***************************************************************************)
isBackEdge(from, to, f) ==
    /\ to \in Successors(f, from)
    /\ to <= from

(***************************************************************************)
(* ControlFlowStructurer::matchDoWhileLoop                                 *)
(***************************************************************************)
matchDoWhileLoop(block, f) ==
    IF Len(f[block].succ) # 2 \/ ~HasBranch(f, block)
    THEN [ok |-> FALSE, exitBlock |-> NoBlock]
    ELSE LET succ1Id == f[block].succ[1]
             succ2Id == f[block].succ[2]
             succ1 == getBlockById(succ1Id, f)
             succ2 == getBlockById(succ2Id, f)
             branchTargetId == f[block].target
             succ1IsLoopBack == (succ1Id = block)
             succ2IsLoopBack == (succ2Id = block)
         IN  IF succ1 = NoBlock \/ succ2 = NoBlock
             THEN [ok |-> FALSE, exitBlock |-> NoBlock]
             ELSE IF ~succ1IsLoopBack /\ ~succ2IsLoopBack
             THEN [ok |-> FALSE, exitBlock |-> NoBlock]
             ELSE IF succ1Id = branchTargetId /\ succ1IsLoopBack
             THEN [ok |-> TRUE, exitBlock |-> succ2]
             ELSE IF succ2Id = branchTargetId /\ succ2IsLoopBack
             THEN [ok |-> TRUE, exitBlock |-> succ1]
             ELSE [ok |-> FALSE, exitBlock |-> NoBlock]

(***************************************************************************)
(* ControlFlowStructurer::matchWhileLoop                                   *)
(***************************************************************************)
matchWhileLoop(block, f) ==
    IF Len(f[block].succ) # 2 \/ ~HasBranch(f, block)
    THEN [ok |-> FALSE, bodyBlock |-> NoBlock, exitBlock |-> NoBlock]
    ELSE LET succ1Id == f[block].succ[1]
             succ2Id == f[block].succ[2]
             succ1 == getBlockById(succ1Id, f)
             succ2 == getBlockById(succ2Id, f)
             branchTargetId == f[block].target
         IN  IF succ1 = NoBlock \/ succ2 = NoBlock
             THEN [ok |-> FALSE, bodyBlock |-> NoBlock, exitBlock |-> NoBlock]
             ELSE IF succ1Id = branchTargetId
             THEN [ok |-> isBackEdge(succ1, block, f),
                   bodyBlock |-> succ1, exitBlock |-> succ2]
             ELSE [ok |-> isBackEdge(succ2, block, f),
                   bodyBlock |-> succ2, exitBlock |-> succ1]

(***************************************************************************)
(* ControlFlowStructurer::matchIfThenElse                                  *)
(***************************************************************************)
\* the first pair (in the iteration order of the nested loops) of equal ids
FirstCommon(thenSuccs, elseSuccs) ==
    LET hits == {i \in 1..Len(thenSuccs) : thenSuccs[i] \in Range(elseSuccs)}
    IN  IF hits = {} THEN NoBlock
        ELSE thenSuccs[CHOOSE i \in hits : \A j \in hits : i <= j]

matchIfThenElse(block, f) ==
    LET no == [ok |-> FALSE, thenBlock |-> NoBlock, elseBlock |-> NoBlock,
               mergeBlock |-> NoBlock]
    IN
    IF Len(f[block].succ) # 2 \/ ~HasBranch(f, block)
    THEN no
    ELSE LET succ1Id == f[block].succ[1]
             succ2Id == f[block].succ[2]
             succ1 == getBlockById(succ1Id, f)
             succ2 == getBlockById(succ2Id, f)
             branchTargetId == f[block].target
             candidateThen == IF succ1Id = branchTargetId THEN succ1 ELSE succ2
             candidateElse == IF succ1Id = branchTargetId THEN succ2 ELSE succ1
         IN  IF succ1 = NoBlock \/ succ2 = NoBlock
             THEN no
             ELSE IF Len(f[candidateThen].succ) = 1
                     /\ candidateElse \in Successors(f, candidateThen)
             THEN no
             ELSE [ok |-> TRUE, thenBlock |-> candidateThen,
                   elseBlock |-> candidateElse,
                   mergeBlock |-> getBlockById(
                       FirstCommon(f[candidateThen].succ, f[candidateElse].succ), f)]

(***************************************************************************)
(* ControlFlowStructurer::matchIfThen                                      *)
(***************************************************************************)
matchIfThen(block, f) ==
    LET no == [ok |-> FALSE, thenBlock |-> NoBlock, mergeBlock |-> NoBlock]
    IN
    IF Len(f[block].succ) # 2 \/ ~HasBranch(f, block)
    THEN no
    ELSE LET succ1Id == f[block].succ[1]
             succ2Id == f[block].succ[2]
             succ1 == getBlockById(succ1Id, f)
             succ2 == getBlockById(succ2Id, f)
             branchTargetId == f[block].target
         IN  IF succ1 = NoBlock \/ succ2 = NoBlock
             THEN no
             ELSE IF succ1Id = branchTargetId
             THEN [ok |-> TRUE, thenBlock |-> succ1, mergeBlock |-> succ2]
             ELSE [ok |-> TRUE, thenBlock |-> succ2, mergeBlock |-> succ1]

(***************************************************************************)
(* ControlFlowStructurer::collectRegionBlocks                              *)
(***************************************************************************)
RECURSIVE collectLoop(_, _, _, _, _, _)
collectLoop(queue, visitedIds, regionBlocks, exitId, excludeId, f) ==
    IF queue = <<>> THEN regionBlocks
    ELSE LET block == Head(queue)
         IN  IF block = exitId \/ block = excludeId
             THEN collectLoop(Tail(queue), visitedIds, regionBlocks,
                              exitId, excludeId, f)
             ELSE LET fresh == SelectSeq(f[block].succ,
                                         LAMBDA s : s \notin visitedIds)
                      pushed == SelectSeq(fresh,
                                  LAMBDA s : /\ s # exitId
                                             /\ s # excludeId
                                             /\ getBlockById(s, f) # NoBlock)
                  IN  collectLoop(Tail(queue) \o pushed,
                                  visitedIds \cup Range(fresh),
                                  Append(regionBlocks, block),
                                  exitId, excludeId, f)

collectRegionBlocks(startBlock, exitBlock, excludeBlock, f) ==
    IF startBlock = NoBlock THEN <<>>
    ELSE collectLoop(<<startBlock>>, {startBlock}, <<>>,
                     exitBlock, excludeBlock, f)

(***************************************************************************)
(* StructuredNode                                                          *)
(***************************************************************************)
Node(kind, cond, blocks, children) ==
    [kind |-> kind, cond |-> cond, blocks |-> blocks, children |-> children]

\* children actually attached: addChild is skipped for a nullptr subtree
Attached(nodes) == SelectSeq(nodes, LAMBDA n : n # Null)

(***************************************************************************)
(* ControlFlowStructurer::analyzeRegion                                    *)
(*                                                                         *)
(* analyzeRegion is a deterministic function of its block list (its        *)
(* processed set is local), so a call nested inside a call with the same   *)
(* list repeats for ever: the C++ call stack grows until it overflows.     *)
(* `chain` is the set of block lists of the calls on the call stack; a     *)
(* repeated list yields Overflow, which every caller passes up.            *)
(***************************************************************************)
RECURSIVE analyzeRegion(_, _, _)
RECURSIVE analyzeBlocks(_, _, _, _, _, _)

analyzeRegion(blocks, f, chain) ==
    IF blocks = <<>> THEN Null
    ELSE IF blocks \in chain THEN Overflow
    ELSE analyzeBlocks(blocks, 1, {}, <<>>, f, chain \cup {blocks})

analyzeBlocks(blocks, i, processedIds, rootChildren, f, chain) ==
    IF i > Len(blocks)
    THEN Node("SEQUENCE", NoBlock, <<>>, rootChildren)
    ELSE
    LET block == blocks[i]
        dw == matchDoWhileLoop(block, f)
        wl == matchWhileLoop(block, f)
        ite == matchIfThenElse(block, f)
        it == matchIfThen(block, f)
    IN
    IF block \in processedIds
    THEN analyzeBlocks(blocks, i + 1, processedIds, rootChildren, f, chain)
    ELSE IF dw.ok
    THEN LET bodyNode == Node("SEQUENCE", NoBlock, <<block>>, <<>>)
             doWhileNode == Node("DO_WHILE", block, <<>>, <<bodyNode>>)
         IN  analyzeBlocks(blocks, i + 1, processedIds \cup {block},
                           Append(rootChildren, doWhileNode), f, chain)
    ELSE IF wl.ok
    THEN LET bodyRegionBlocks ==
                 collectRegionBlocks(wl.bodyBlock, wl.exitBlock, block, f)
             bodyNode == analyzeRegion(bodyRegionBlocks, f, chain)
             whileNode == Node("WHILE", block, <<>>, Attached(<<bodyNode>>))
         IN  IF bodyNode = Overflow THEN Overflow
             ELSE analyzeBlocks(blocks, i + 1,
                      processedIds \cup Range(bodyRegionBlocks) \cup {block},
                      Append(rootChildren, whileNode), f, chain)
    ELSE IF ite.ok
    THEN LET thenRegionBlocks ==
                 collectRegionBlocks(ite.thenBlock, ite.mergeBlock, block, f)
             thenNode == analyzeRegion(thenRegionBlocks, f, chain)
             elseRegionBlocks ==
                 collectRegionBlocks(ite.elseBlock, ite.mergeBlock, block, f)
             elseNode == analyzeRegion(elseRegionBlocks, f, chain)
             ifNode == Node("IF_THEN_ELSE", block, <<>>,
                            Attached(<<thenNode, elseNode>>))
         IN  IF thenNode = Overflow THEN Overflow
             ELSE IF elseNode = Overflow THEN Overflow
             ELSE analyzeBlocks(blocks, i + 1,
                      processedIds \cup Range(thenRegionBlocks)
                          \cup Range(elseRegionBlocks) \cup {block},
                      Append(rootChildren, ifNode), f, chain)
    ELSE IF it.ok
    THEN LET thenRegionBlocks ==
                 collectRegionBlocks(it.thenBlock, it.mergeBlock, block, f)
             thenNode == analyzeRegion(thenRegionBlocks, f, chain)
             ifNode == Node("IF_THEN", block, <<>>, Attached(<<thenNode>>))
         IN  IF thenNode = Overflow THEN Overflow
             ELSE analyzeBlocks(blocks, i + 1,
                      processedIds \cup Range(thenRegionBlocks) \cup {block},
                      Append(rootChildren, ifNode), f, chain)
    ELSE LET seqNode == Node("SEQUENCE", NoBlock, <<block>>, <<>>)
         IN  analyzeBlocks(blocks, i + 1, processedIds \cup {block},
                           Append(rootChildren, seqNode), f, chain)

(***************************************************************************)
(* ControlFlowStructurer::structureFunction                                *)
(***************************************************************************)
RECURSIVE bfsLoop(_, _, _, _)
bfsLoop(queue, visitedIds, blocks, f) ==
    IF queue = <<>> THEN blocks
    ELSE LET block == Head(queue)
             fresh == SelectSeq(f[block].succ, LAMBDA s : s \notin visitedIds)
             pushed == SelectSeq(fresh, LAMBDA s : getBlockById(s, f) # NoBlock)
         IN  bfsLoop(Tail(queue) \o pushed, visitedIds \cup Range(fresh),
                     Append(blocks, block), f)

structureFunction(f) ==
    IF getBlockById(EntryBlockId, f) = NoBlock THEN Null
    ELSE analyzeRegion(bfsLoop(<<EntryBlockId>>, {EntryBlockId}, <<>>, f),
                       f, {})

(***************************************************************************)
(* Structurer state machine                                                *)
(***************************************************************************)
\* iteration sequences of a successor set
Orders(S) == {s \in UNION {[1..n -> S] : n \in 0..2} :
                 IsInjective(s) /\ Range(s) = S}

\* A block without a BRANCH ends in a Return (no successor) or a Goto (one
\* successor); a block with a BRANCH has the branch target and the
\* fall-through block as successors.
BlockShapes ==
    {[succ |-> <<>>, target |-> NoBlock]}
    \cup {[succ |-> <<s>>, target |-> NoBlock] : s \in BlockIds}
    \cup UNION {{[succ |-> o, target |-> t] : o \in Orders({t, ft})} :
                   <<t, ft>> \in BlockIds \X BlockIds}

\* every block of the function is reachable from the entry block
AllReachable(f) ==
    Range(bfsLoop(<<EntryBlockId>>, {EntryBlockId}, <<>>, f)) = DOMAIN f

StructInit ==
    /\ fn \in {f \in [BlockIds -> BlockShapes] : AllReachable(f)}
    /\ sPhase = "ready"
    /\ sTree = Null

StructIdle ==
    /\ fn = <<>>
    /\ sPhase = "idle"
    /\ sTree = Null

StructureReturns ==
    /\ sPhase = "ready"
    /\ structureFunction(fn) # Overflow
    /\ sPhase' = "returned"
    /\ sTree' = structureFunction(fn)
    /\ UNCHANGED fn
    /\ UNCHANGED <<liftVars, pcodeVars, emitVars, peVars, x86Vars,
                   readerVars, decompVars,
                   typeVars, unifyVars>>

StructureOverflows ==
    /\ sPhase = "ready"
    /\ structureFunction(fn) = Overflow
    /\ sPhase' = "overflow"
    /\ UNCHANGED <<fn, sTree>>
    /\ UNCHANGED <<liftVars, pcodeVars, emitVars, peVars, x86Vars,
                   readerVars, decompVars,
                   typeVars, unifyVars>>

StructNext == StructureReturns \/ StructureOverflows


(***************************************************************************)
(* P-Code instructions handed to the lifter                                *)
(*                                                                         *)
(* Instruction records carry the fields the lifter reads.  Addresses are   *)
(* consecutive from StartAddress; a branch's offset is relative to the end *)
(* of the branch instruction and is chosen so that the target is the       *)
(* address of an instruction of the list or the address just past it.      *)
(***************************************************************************)
MaxInstrs == 3

StartAddress == 8192

\* the searched substrings each mnemonic contains (std::string::find)
MnemonicParts ==
    [LitI4 |-> {"Lit"}, AddI4 |-> {"Add"}, StLoc |-> {"StLoc"},
     BranchF |-> {}, Branch |-> {}, ExitProc |-> {"Exit", "ExitProc"},
     Ret |-> {}, GtI4 |-> {"Gt"}, CgtI4 |-> {}]

Contains(mnemonic, part) == part \in MnemonicParts[mnemonic]

Operand(type, value) == [type |-> type, value |-> value]

\* The kinds of record handed to lift.  The records built by hand carry the
\* flags of their opcode; ExitProcDecoded is the record that disassembleOne
\* builds for ExitProc, whose flags keep their default value.
InstrKinds ==
    [LitI4 |-> [mnemonic |-> "LitI4", category |-> "STACK", length |-> 5, isBranch |-> FALSE,
                isConditionalBranch |-> FALSE, isReturn |-> FALSE,
                operands |-> <<Operand("INT32", 1)>>],
     AddI4 |-> [mnemonic |-> "AddI4", category |-> "ARITHMETIC", length |-> 1, isBranch |-> FALSE,
                isConditionalBranch |-> FALSE, isReturn |-> FALSE,
                operands |-> <<>>],
     StLoc |-> [mnemonic |-> "StLoc", category |-> "VARIABLE", length |-> 3, isBranch |-> FALSE,
                isConditionalBranch |-> FALSE, isReturn |-> FALSE,
                operands |-> <<Operand("INT16", 0)>>],
     BranchF |-> [mnemonic |-> "BranchF", category |-> "CONTROL_FLOW", length |-> 3, isBranch |-> TRUE,
                  isConditionalBranch |-> TRUE, isReturn |-> FALSE,
                  operands |-> <<>>],
     Branch |-> [mnemonic |-> "Branch", category |-> "CONTROL_FLOW", length |-> 3, isBranch |-> TRUE,
                 isConditionalBranch |-> FALSE, isReturn |-> FALSE,
                 operands |-> <<>>],
     ExitProc |-> [mnemonic |-> "ExitProc", category |-> "CONTROL_FLOW", length |-> 1, isBranch |-> FALSE,
                   isConditionalBranch |-> FALSE, isReturn |-> TRUE,
                   operands |-> <<>>],
     Ret |-> [mnemonic |-> "Ret", category |-> "CONTROL_FLOW", length |-> 1, isBranch |-> FALSE,
              isConditionalBranch |-> FALSE, isReturn |-> TRUE,
              operands |-> <<>>],
     GtI4 |-> [mnemonic |-> "GtI4", category |-> "COMPARISON", length |-> 1,
               isBranch |-> FALSE, isConditionalBranch |-> FALSE,
               isReturn |-> FALSE, operands |-> <<>>],
     CgtI4 |-> [mnemonic |-> "CgtI4", category |-> "COMPARISON", length |-> 1,
                isBranch |-> FALSE, isConditionalBranch |-> FALSE,
                isReturn |-> FALSE, operands |-> <<>>],
     ExitProcDecoded |->
         [mnemonic |-> "ExitProc", category |-> "CONTROL_FLOW", length |-> 1,
          isBranch |-> FALSE, isConditionalBranch |-> FALSE,
          isReturn |-> FALSE, operands |-> <<>>]]

Mnemonics == DOMAIN InstrKinds

\* a choice is <<kind, index of the branch target (0: not a branch)>>
InstrChoices(n) ==
    {<<k, 0>> : k \in {m \in Mnemonics : ~InstrKinds[m].isBranch}}
    \cup {<<k, t>> : k \in {m \in Mnemonics : InstrKinds[m].isBranch},
                     t \in 1..(n + 1)}

\* address of the i-th instruction (i = n + 1: the address past the list)
AddressOf(ch, i) ==
    StartAddress + SeqSum([j \in 1..(i - 1) |-> InstrKinds[ch[j][1]].length])

MakeInstr(ch, i) ==
    LET k == InstrKinds[ch[i][1]]
    IN  [address |-> AddressOf(ch, i),
         length |-> k.length,
         mnemonic |-> k.mnemonic,
         category |-> k.category,
         isBranch |-> k.isBranch,
         isConditionalBranch |-> k.isConditionalBranch,
         isReturn |-> k.isReturn,
         branchOffset |-> IF k.isBranch
                          THEN AddressOf(ch, ch[i][2])
                                   - (AddressOf(ch, i) + k.length)
                          ELSE 0,
         operands |-> k.operands]

\* the list of n instructions built from the choices ch
MakeList(ch, n) == [i \in 1..n |-> MakeInstr(ch, i)]

\* uint32_t targetAddr = address + length + branchOffset; the targets of the
\* lists above lie between StartAddress and the end of the list, where the
\* 32-bit sum does not wrap
TargetAddr(instr) == instr.address + instr.length + instr.branchOffset

(***************************************************************************)
(* IRFunction and LiftContext operations                                   *)
(*                                                                         *)
(* A lifted block is [stmts, succ, pred]; the blocks of the function are   *)
(* a function from ids 0..n-1.  A context ctx is                           *)
(* [blocks, cur, map, stack, underflow]: the function's blocks, the id of  *)
(* currentBlock, addressToBlock, evalStack, and whether popStack has       *)
(* returned nullptr.                                                       *)
(***************************************************************************)
EmptyBlock == [stmts |-> <<>>, succ |-> {}, pred |-> {}]

\* IRFunction::createBasicBlock: the new block gets id nextBlockId_
NextBlockId(blocks) == Cardinality(DOMAIN blocks)

createBasicBlock(blocks) == blocks @@ (NextBlockId(blocks) :> EmptyBlock)

\* a connectBlocks that records the edge on the source block only
connectBlocksSuccessorOnly(blocks, fromId, toId) ==
    IF fromId \in DOMAIN blocks /\ toId \in DOMAIN blocks
    THEN [blocks EXCEPT ![fromId].succ = @ \cup {toId}]
    ELSE blocks

\* IRFunction::connectBlocks
connectBlocks(blocks, fromId, toId) ==
    IF fromId \in DOMAIN blocks /\ toId \in DOMAIN blocks
    THEN LET withSucc == [blocks EXCEPT ![fromId].succ = @ \cup {toId}]
         IN  [withSucc EXCEPT ![toId].pred = @ \cup {fromId}]
    ELSE blocks

\* IRBasicBlock::addStatement on the current block
addStatement(ctx, stmt) ==
    [ctx EXCEPT !.blocks[ctx.cur].stmts = Append(@, stmt)]

\* LiftContext::popStack: [expr, ctx], expr = Null on an empty stack
popStack(ctx) ==
    IF ctx.stack = <<>>
    THEN [expr |-> Null, ctx |-> [ctx EXCEPT !.underflow = TRUE]]
    ELSE [expr |-> ctx.stack[Len(ctx.stack)],
          ctx |-> [ctx EXCEPT !.stack = SubSeq(@, 1, Len(@) - 1)]]

\* LiftContext::pushStack
pushStack(ctx, expr) == [ctx EXCEPT !.stack = Append(@, expr)]

\* PCodeLifter::getOrCreateBlockForAddress: [block, ctx]
getOrCreateBlockForAddress(address, ctx) ==
    IF address \in DOMAIN ctx.map
    THEN [block |-> ctx.map[address], ctx |-> ctx]
    ELSE [block |-> NextBlockId(ctx.blocks),
          ctx |-> [ctx EXCEPT !.blocks = createBasicBlock(@),
                              !.map = @ @@ (address :> NextBlockId(ctx.blocks))]]

\* IRExpression / IRStatement factories
makeConstant(value) == [kind |-> "CONSTANT", value |-> value]
makeBinary(op, left, right) == [kind |-> op, left |-> left, right |-> right]
makeAssign(index, value) == [kind |-> "ASSIGN", target |-> index, value |-> value]
makeBranch(cond, targetId) == [kind |-> "BRANCH", cond |-> cond, target |-> targetId]
makeGoto(targetId) == [kind |-> "GOTO", target |-> targetId]
makeReturn(value) == [kind |-> "RETURN", value |-> value]

Ok(ctx) == [ok |-> TRUE, ctx |-> ctx]
Fail(ctx) == [ok |-> FALSE, ctx |-> ctx]

\* PCodeLifter::liftArithmetic
liftArithmetic(instr, ctx) ==
    IF ~Contains(instr.mnemonic, "Add")
    THEN Ok(ctx)
    ELSE LET right == popStack(ctx)
             left == popStack(right.ctx)
         IN  IF right.expr = Null \/ left.expr = Null
             THEN Fail(left.ctx)
             ELSE Ok(pushStack(left.ctx,
                               makeBinary("ADD", left.expr, right.expr)))

\* PCodeLifter::liftComparison: the operator is chosen by the first of
\* "Eq", "Ne", "Lt", "Le", "Gt", "Ge" that the mnemonic contains; a mnemonic
\* that contains none of them is skipped and the stack is left as it is
liftComparison(instr, ctx) ==
    LET op == CASE Contains(instr.mnemonic, "Eq") -> "EQUAL"
                [] Contains(instr.mnemonic, "Ne") -> "NOT_EQUAL"
                [] Contains(instr.mnemonic, "Lt") -> "LESS_THAN"
                [] Contains(instr.mnemonic, "Le") -> "LESS_EQUAL"
                [] Contains(instr.mnemonic, "Gt") -> "GREATER_THAN"
                [] Contains(instr.mnemonic, "Ge") -> "GREATER_EQUAL"
                [] OTHER -> "NONE"
        right == popStack(ctx)
        left == popStack(right.ctx)
    IN  IF op = "NONE" THEN Ok(ctx)
        ELSE IF right.expr = Null \/ left.expr = Null
        THEN Fail(left.ctx)
        ELSE Ok(pushStack(left.ctx, makeBinary(op, left.expr, right.expr)))

\* PCodeLifter::liftStack
liftStack(instr, ctx) ==
    IF Contains(instr.mnemonic, "Lit")
    THEN IF instr.operands = <<>>
         THEN Fail(ctx)
         ELSE Ok(pushStack(ctx, makeConstant(instr.operands[1].value)))
    ELSE IF Contains(instr.mnemonic, "StLoc")
    THEN IF instr.operands = <<>>
         THEN Fail(ctx)
         ELSE LET value == popStack(ctx)
              IN  IF value.expr = Null
                  THEN Fail(value.ctx)
                  ELSE Ok(addStatement(value.ctx,
                              makeAssign(instr.operands[1].value, value.expr)))
    ELSE Ok(ctx)

\* PCodeLifter::liftBranch
liftBranch(instr, ctx) ==
    IF instr.isConditionalBranch
    THEN LET condition == popStack(ctx)
             target == getOrCreateBlockForAddress(TargetAddr(instr), condition.ctx)
             c1 == addStatement(target.ctx, makeBranch(condition.expr, target.block))
             c2 == [c1 EXCEPT !.blocks = connectBlocks(@, c1.cur, target.block)]
             fallThroughBlock == NextBlockId(c2.blocks)
             c3 == [c2 EXCEPT !.blocks = createBasicBlock(@)]
             c4 == [c3 EXCEPT !.blocks = connectBlocks(@, c3.cur, fallThroughBlock)]
         IN  IF condition.expr = Null
             THEN Fail(condition.ctx)
             ELSE Ok([c4 EXCEPT !.cur = fallThroughBlock])
    ELSE LET target == getOrCreateBlockForAddress(TargetAddr(instr), ctx)
             c1 == addStatement(target.ctx, makeGoto(target.block))
             c2 == [c1 EXCEPT !.blocks = connectBlocks(@, c1.cur, target.block)]
         IN  Ok([c2 EXCEPT !.cur = NextBlockId(c2.blocks),
                           !.blocks = createBasicBlock(@)])

\* PCodeLifter::liftReturn
liftReturn(instr, ctx) ==
    IF Contains(instr.mnemonic, "ExitProc")
    THEN Ok(addStatement(ctx, makeReturn(Null)))
    ELSE LET retValue == popStack(ctx)
         IN  Ok(addStatement(retValue.ctx, makeReturn(retValue.expr)))

\* PCodeLifter::liftInstruction
liftInstruction(instr, ctx) ==
    CASE instr.category = "ARITHMETIC" -> liftArithmetic(instr, ctx)
      [] instr.category = "COMPARISON" -> liftComparison(instr, ctx)
      [] instr.category \in {"STACK", "VARIABLE"} -> liftStack(instr, ctx)
      [] instr.category = "CONTROL_FLOW" ->
             IF instr.isBranch THEN liftBranch(instr, ctx)
             ELSE IF instr.isReturn \/ Contains(instr.mnemonic, "Exit")
                     \/ Contains(instr.mnemonic, "Return")
             THEN liftReturn(instr, ctx)
             ELSE Ok(ctx)
      [] OTHER -> Ok(ctx)

(***************************************************************************)
(* PCodeLifter::lift as a state machine: LiftEmpty is the early return on  *)
(* an empty list, LiftBegin creates the entry block and runs the first     *)
(* pass, LiftStep is one iteration of the second pass (with the return of  *)
(* lift when the loop ends or the instruction cannot be lifted).           *)
(***************************************************************************)
NoContext == [blocks |-> <<>>, cur |-> NoBlock, map |-> <<>>, stack |-> <<>>,
              underflow |-> FALSE]

RECURSIVE firstPass(_, _, _)
firstPass(instrs, i, ctx) ==
    IF i > Len(instrs) THEN ctx
    ELSE IF instrs[i].isBranch /\ instrs[i].branchOffset # 0
    THEN firstPass(instrs, i + 1,
                   getOrCreateBlockForAddress(TargetAddr(instrs[i]), ctx).ctx)
    ELSE firstPass(instrs, i + 1, ctx)

\* the block switch at the head of an iteration of the second pass
switchBlock(instr, ctx) ==
    IF instr.address \in DOMAIN ctx.map /\ ctx.map[instr.address] # ctx.cur
    THEN [ctx EXCEPT
            !.blocks = IF ctx.blocks[ctx.cur].stmts # <<>>
                       THEN connectBlocks(@, ctx.cur, ctx.map[instr.address])
                       ELSE @,
            !.cur = ctx.map[instr.address]]
    ELSE ctx

LiftFailure(mnemonic) == "Failed to lift instruction: " \o mnemonic

LiftInit ==
    /\ \E n \in 0..MaxInstrs :
          \E ch \in [1..n -> InstrChoices(n)] : lInstrs = MakeList(ch, n)
    /\ lPc = 1
    /\ lCtx = NoContext
    /\ lPhase = "ready"
    /\ lResult = Null
    /\ lError = ""

LiftIdle ==
    /\ lInstrs = <<>>
    /\ lPc = 1
    /\ lCtx = NoContext
    /\ lPhase = "idle"
    /\ lResult = Null
    /\ lError = ""

LiftEmpty ==
    /\ lPhase = "ready"
    /\ lInstrs = <<>>
    /\ lPhase' = "failed"
    /\ lError' = "No instructions to lift"
    /\ UNCHANGED <<lInstrs, lPc, lCtx, lResult>>
    /\ UNCHANGED <<structVars, pcodeVars, emitVars, peVars, x86Vars,
                   readerVars, decompVars,
                   typeVars, unifyVars>>

LiftBegin ==
    /\ lPhase = "ready"
    /\ lInstrs # <<>>
    /\ lCtx' = firstPass(lInstrs, 1,
                   [NoContext EXCEPT !.blocks = createBasicBlock(<<>>),
                                     !.cur = EntryBlockId])
    /\ lPhase' = "running"
    /\ UNCHANGED <<lInstrs, lPc, lResult, lError>>
    /\ UNCHANGED <<structVars, pcodeVars, emitVars, peVars, x86Vars,
                   readerVars, decompVars,
                   typeVars, unifyVars>>

LiftStep ==
    /\ lPhase = "running"
    /\ lPc <= Len(lInstrs)
    /\ LET instr == lInstrs[lPc]
           lifted == liftInstruction(instr, switchBlock(instr, lCtx))
       IN  /\ lCtx' = lifted.ctx
           /\ lPc' = lPc + 1
           /\ IF ~lifted.ok
              THEN /\ lPhase' = "failed"
                   /\ lError' = LiftFailure(instr.mnemonic)
                   /\ lResult' = Null
              ELSE IF instr.isReturn \/ lPc = Len(lInstrs)
              THEN /\ lPhase' = "done"
                   /\ lResult' = [blocks |-> lifted.ctx.blocks]
                   /\ UNCHANGED lError
              ELSE UNCHANGED <<lPhase, lResult, lError>>
    /\ UNCHANGED lInstrs
    /\ UNCHANGED <<structVars, pcodeVars, emitVars, peVars, x86Vars,
                   readerVars, decompVars,
                   typeVars, unifyVars>>

LiftNext == LiftEmpty \/ LiftBegin \/ LiftStep

(***************************************************************************)
(* P-Code decoder                                                          *)
(*                                                                         *)
(* A buffer is a sequence of bytes 0..255; offsets are 0-based as in the   *)
(* code, so data[offset] is ByteAt(data, offset).  A decoding state st is  *)
(* [offset, instr, error]: the cursor, the instruction being filled in,    *)
(* and lastError_.                                                         *)
(***************************************************************************)
ByteAt(data, offset) == data[offset + 1]

\* the element of a singleton set; a result that is used several times is
\* bound as `r \in {e}` so that e is evaluated once
The(S) == CHOOSE x \in S : TRUE

\* the opcode metadata table: an entry per operand format, and no entry
\* for the other primary opcodes and secondary bytes
OpcodeInfo(mn, fmt, cat, delta, branch, cond, call, ret) ==
    [mnemonic |-> mn, format |-> fmt, category |-> cat, stackDelta |-> delta,
     isBranch |-> branch, isConditionalBranch |-> cond, isCall |-> call,
     isReturn |-> ret]

PrimaryTable ==
    (1 :> OpcodeInfo("ExitProc", <<>>, "CONTROL_FLOW", 0, FALSE, FALSE, FALSE, TRUE))
    @@ (2 :> OpcodeInfo("LitI2_Byte", <<"b">>, "STACK", 1, FALSE, FALSE, FALSE, FALSE))
    @@ (3 :> OpcodeInfo("BranchF", <<"%">>, "CONTROL_FLOW", 0 - 1, TRUE, TRUE, FALSE, FALSE))
    @@ (4 :> OpcodeInfo("LitI4", <<"&">>, "STACK", 1, FALSE, FALSE, FALSE, FALSE))
    @@ (5 :> OpcodeInfo("LitStr", <<"z">>, "STACK", 1, FALSE, FALSE, FALSE, FALSE))
    @@ (6 :> OpcodeInfo("LdLoc", <<"l">>, "VARIABLE", 1, FALSE, FALSE, FALSE, FALSE))
    @@ (7 :> OpcodeInfo("LdArg", <<"a">>, "VARIABLE", 1, FALSE, FALSE, FALSE, FALSE))
    @@ (8 :> OpcodeInfo("LdCtl", <<"c">>, "VARIABLE", 1, FALSE, FALSE, FALSE, FALSE))
    @@ (9 :> OpcodeInfo("VCall", <<"v", "~">>, "CALL", 0, FALSE, FALSE, TRUE, FALSE))
    @@ (10 :> OpcodeInfo("LitR4", <<"!">>, "STACK", 1, FALSE, FALSE, FALSE, FALSE))

ExtendedTable ==
    (<<251, 1>> :> OpcodeInfo("LitVarI2", <<"%">>, "STACK", 1, FALSE, FALSE, FALSE, FALSE))

\* getOpcodeInfo / getExtendedOpcodeInfo: Null for no entry
getOpcodeInfo(opcode) ==
    IF opcode \in DOMAIN PrimaryTable THEN PrimaryTable[opcode] ELSE Null

getExtendedOpcodeInfo(primaryOpcode, secondaryOpcode) ==
    IF <<primaryOpcode, secondaryOpcode>> \in DOMAIN ExtendedTable
    THEN ExtendedTable[<<primaryOpcode, secondaryOpcode>>]
    ELSE Null

isExtendedOpcode(opcode) == opcode >= 251 /\ opcode <= 255

\* PCodeInstruction() with the address set
NewInstruction(address) ==
    [address |-> address, length |-> 0, opcode |-> 0, extOpcode |-> 0,
     mnemonic |-> "", operands |-> <<>>, bytes |-> <<>>, category |-> "UNSET",
     stackDelta |-> 0, isBranch |-> FALSE, isConditionalBranch |-> FALSE,
     isCall |-> FALSE, isReturn |-> FALSE, branchOffset |-> 0]

setError(st, error) == [st EXCEPT !.error = error]

PCodeOperand(type, value, dataType) ==
    [type |-> type, value |-> value, dataType |-> dataType]

addOperand(st, operand) == [st EXCEPT !.instr.operands = Append(@, operand)]

\* read helpers: [ok, value, st]
readByte(data, st) ==
    IF st.offset >= Len(data)
    THEN [ok |-> FALSE, value |-> 0,
          st |-> setError(st, "Unexpected end of data reading byte")]
    ELSE [ok |-> TRUE, value |-> ByteAt(data, st.offset),
          st |-> [st EXCEPT !.offset = @ + 1]]

\* static_cast<int16_t>(lo | hi << 8)
ToInt16(lo, hi) ==
    IF hi >= 128 THEN lo + 256 * hi - 65536 ELSE lo + 256 * hi

readInt16(data, st) ==
    IF st.offset + 1 >= Len(data)
    THEN [ok |-> FALSE, value |-> 0,
          st |-> setError(st, "Unexpected end of data reading int16")]
    ELSE [ok |-> TRUE,
          value |-> ToInt16(ByteAt(data, st.offset), ByteAt(data, st.offset + 1)),
          st |-> [st EXCEPT !.offset = @ + 2]]

\* static_cast<int32_t>(b0 | b1 << 8 | b2 << 16 | b3 << 24)
ToInt32(b0, b1, b2, b3) ==
    b0 + 256 * b1 + 65536 * b2
       + 16777216 * (IF b3 >= 128 THEN b3 - 256 ELSE b3)

readInt32(data, st) ==
    IF st.offset + 3 >= Len(data)
    THEN [ok |-> FALSE, value |-> 0,
          st |-> setError(st, "Unexpected end of data reading int32")]
    ELSE [ok |-> TRUE,
          value |-> ToInt32(ByteAt(data, st.offset), ByteAt(data, st.offset + 1),
                            ByteAt(data, st.offset + 2), ByteAt(data, st.offset + 3)),
          st |-> [st EXCEPT !.offset = @ + 4]]

\* the float is the reinterpretation of the four bytes read
readFloat(data, st) ==
    IF st.offset + 3 >= Len(data)
    THEN [ok |-> FALSE, value |-> <<>>,
          st |-> setError(st, "Unexpected end of data reading float")]
    ELSE [ok |-> TRUE,
          value |-> SubSeq(data, st.offset + 1, st.offset + 4),
          st |-> [st EXCEPT !.offset = @ + 4]]

\* readString: UTF-16LE units up to a NUL unit or the end of the buffer; a
\* unit below 128 is kept, any other becomes '?' (63); always succeeds.
\* The loop of the code is written in closed form: `avail` whole units lie
\* between the cursor and the end, the loop stops after the first NUL unit.
UnitAt(data, offset, k) ==
    ByteAt(data, offset + 2 * k) + 256 * ByteAt(data, offset + 2 * k + 1)

readStringLoop(data, offset) ==
    LET avail == IF offset + 1 < Len(data) THEN (Len(data) - offset) \div 2 ELSE 0
        nuls == {k \in 0..(avail - 1) : UnitAt(data, offset, k) = 0}
        taken == IF nuls = {} THEN avail
                 ELSE CHOOSE k \in nuls : \A j \in nuls : k <= j
    IN  [value |-> [i \in 1..taken |->
                       IF UnitAt(data, offset, i - 1) < 128
                       THEN UnitAt(data, offset, i - 1) ELSE 63],
         offset |-> IF nuls = {} THEN offset + 2 * avail
                    ELSE offset + 2 * (taken + 1)]

readString(data, st) ==
    The({[ok |-> TRUE, value |-> r.value, st |-> [st EXCEPT !.offset = r.offset]]
         : r \in {readStringLoop(data, st.offset)}})

\* the bytes '%', '&', '!', '~', 'z', '?' taken as a trailing type character
TypeChars == {37, 38, 33, 126, 122, 63}

parseTypeChar(typeChar) ==
    CASE typeChar = 63 -> "BOOLEAN"
      [] typeChar = 37 -> "INTEGER"
      [] typeChar = 38 -> "LONG"
      [] typeChar = 33 -> "SINGLE"
      [] typeChar = 126 -> "VARIANT"
      [] typeChar = 122 -> "STRING"
      [] OTHER -> "UNKNOWN"

\* operand decoders: [ok, ctx]
decodeOperandByte(data, st) ==
    The({IF ~r.ok THEN Fail(setError(r.st, "Failed to read byte operand"))
         ELSE Ok(addOperand(r.st, PCodeOperand("BYTE", r.value, "BYTE")))
         : r \in {readByte(data, st)}})

\* decodeOperandInt16 / Control / VTable: an int16 stored with a fixed type
decodeOperandPlainInt16(data, st, type, dataType, error) ==
    The({IF ~r.ok THEN Fail(setError(r.st, error))
         ELSE Ok(addOperand(r.st, PCodeOperand(type, r.value, dataType)))
         : r \in {readInt16(data, st)}})

decodeOperandInt32(data, st) ==
    The({IF ~r.ok THEN Fail(setError(r.st, "Failed to read int32 operand"))
         ELSE Ok(addOperand(r.st, PCodeOperand("INT32", r.value, "LONG")))
         : r \in {readInt32(data, st)}})

decodeOperandFloat(data, st) ==
    The({IF ~r.ok THEN Fail(setError(r.st, "Failed to read float operand"))
         ELSE Ok(addOperand(r.st, PCodeOperand("FLOAT", r.value, "SINGLE")))
         : r \in {readFloat(data, st)}})

decodeOperandString(data, st) ==
    The({IF ~r.ok THEN Fail(setError(r.st, "Failed to read string operand"))
         ELSE Ok(addOperand(r.st, PCodeOperand("STRING", r.value, "STRING")))
         : r \in {readString(data, st)}})

\* the type character check after an int16 index: the data type and the
\* cursor, moved past the byte when it is a type character
withTypeChar(data, st) ==
    IF st.offset < Len(data) /\ ByteAt(data, st.offset) \in TypeChars
    THEN [dataType |-> parseTypeChar(ByteAt(data, st.offset)),
          st |-> [st EXCEPT !.offset = @ + 1]]
    ELSE [dataType |-> "VARIANT", st |-> st]

\* decodeOperandArgument / decodeOperandLocal
decodeOperandTyped(data, st, type, error) ==
    The({IF ~r.ok THEN Fail(setError(r.st, error))
         ELSE The({Ok(addOperand(t.st, PCodeOperand(type, r.value, t.dataType)))
                   : t \in {withTypeChar(data, r.st)}})
         : r \in {readInt16(data, st)}})

decodeOperand(data, st, ch) ==
    CASE ch = "b" -> decodeOperandByte(data, st)
      [] ch = "%" -> decodeOperandPlainInt16(data, st, "INT16", "INTEGER",
                                             "Failed to read int16 operand")
      [] ch = "&" -> decodeOperandInt32(data, st)
      [] ch = "!" -> decodeOperandFloat(data, st)
      [] ch = "a" -> decodeOperandTyped(data, st, "ARGUMENT",
                                        "Failed to read argument index")
      [] ch = "c" -> decodeOperandPlainInt16(data, st, "CONTROL", "OBJECT",
                                             "Failed to read control index")
      [] ch = "l" -> decodeOperandTyped(data, st, "LOCAL_VAR",
                                        "Failed to read local variable index")
      [] ch = "z" -> decodeOperandString(data, st)
      [] ch = "v" -> decodeOperandPlainInt16(data, st, "VTABLE", "OBJECT",
                                             "Failed to read vtable reference")
      [] OTHER -> Ok(st)

\* PCodeDisassembler::decodeOperands
RECURSIVE decodeOperands(_, _, _)
decodeOperands(data, st, format) ==
    IF format = <<>> THEN Ok(st)
    ELSE The({IF ~r.ok THEN r ELSE decodeOperands(data, r.ctx, Tail(format))
              : r \in {decodeOperand(data, st, Head(format))}})

\* the setOpcode .. setStackDelta calls of decodeInstruction
WithInfo(st, opcode, extOpcode, info) ==
    [st EXCEPT !.instr.opcode = opcode, !.instr.extOpcode = extOpcode,
               !.instr.mnemonic = info.mnemonic,
               !.instr.category = info.category,
               !.instr.stackDelta = info.stackDelta]

\* decodeInstruction after the prefix byte of an extended opcode
decodeExtended(data, op) ==
    The({IF ~ext.ok
         THEN Fail(setError(ext.st, "Failed to read extended opcode"))
         ELSE The({IF extInfo = Null
                   THEN Ok([ext.st EXCEPT !.instr.opcode = op.value,
                                          !.instr.extOpcode = ext.value,
                                          !.instr.mnemonic = "Unknown",
                                          !.instr.category = "UNKNOWN"])
                   ELSE decodeOperands(data,
                            WithInfo(ext.st, op.value, ext.value, extInfo),
                            extInfo.format)
                   : extInfo \in {getExtendedOpcodeInfo(op.value, ext.value)}})
         : ext \in {readByte(data, op.st)}})

\* decodeInstruction after the byte of a standard opcode
decodeStandard(data, op) ==
    The({IF info = Null
         THEN Fail(setError(op.st, "Invalid opcode"))
         ELSE decodeOperands(data, WithInfo(op.st, op.value, 0, info), info.format)
         : info \in {getOpcodeInfo(op.value)}})

\* PCodeDisassembler::decodeInstruction: [ok, ctx]
decodeInstruction(data, st) ==
    The({IF ~op.ok THEN Fail(setError(op.st, "Failed to read opcode"))
         ELSE IF isExtendedOpcode(op.value) THEN decodeExtended(data, op)
         ELSE decodeStandard(data, op)
         : op \in {readByte(data, st)}})

\* uint8_t
ToUint8(n) == n % 256

\* PCodeDisassembler::disassembleOne: [instr, offset, error], instr = Null
\* for nullptr; offset is the by-reference cursor after the call
disassembleOne(data, offset, address, error) ==
    IF offset >= Len(data)
    THEN [instr |-> Null, offset |-> offset, error |-> "Offset out of bounds"]
    ELSE The({IF ~d.ok
              THEN [instr |-> Null, offset |-> d.ctx.offset, error |-> d.ctx.error]
              ELSE [instr |-> [d.ctx.instr EXCEPT
                                  !.length = ToUint8(d.ctx.offset - offset),
                                  !.bytes = SubSeq(data, offset + 1, d.ctx.offset)],
                    offset |-> d.ctx.offset, error |-> d.ctx.error]
              : d \in {decodeInstruction(data,
                           [offset |-> offset, instr |-> NewInstruction(address),
                            error |-> error])}})

(***************************************************************************)
(* PCodeDisassembler::disassemble (count = 0) as a state machine: one      *)
(* PDisassembleOne per iteration of its loop, PDisassembleReturns when the *)
(* loop condition fails.                                                   *)
(***************************************************************************)
MaxData == 5

MaxStrChars == 128

\* bytes a buffer starts with: every opcode of the table, an opcode and a
\* prefix without entry; and the bytes that follow
FirstBytes == DOMAIN PrimaryTable \cup {0, 37, 251}
RestBytes == {0, 1, 37, 251}

\* a LitStr instruction with a string of n characters 'A', then ExitProc
StringBuffer(n) ==
    [i \in 1..(2 * n + 4) |->
        IF i = 1 THEN 5
        ELSE IF i <= 2 * n + 1 THEN (IF i % 2 = 0 THEN 65 ELSE 0)
        ELSE IF i = 2 * n + 4 THEN 1 ELSE 0]

PCodeInit ==
    /\ \/ pData = <<>>
       \/ \E n \in 1..MaxData : \E first \in FirstBytes :
             \E rest \in [1..(n - 1) -> RestBytes] : pData = <<first>> \o rest
       \/ \E n \in 0..MaxStrChars : pData = StringBuffer(n)
    /\ pOffset = 0
    /\ pAddress = StartAddress
    /\ pInstrs = <<>>
    /\ pStart = 0
    /\ pLast = Null
    /\ pPhase = "running"
    /\ pError = ""

PCodeIdle ==
    /\ pData = <<>>
    /\ pOffset = 0
    /\ pAddress = StartAddress
    /\ pInstrs = <<>>
    /\ pStart = 0
    /\ pLast = Null
    /\ pPhase = "idle"
    /\ pError = ""

\* the mnemonics at which disassembleProcedure leaves its loop
ProcedureExits == {"ExitProc", "ExitProcHresult"}

\* One iteration of the loop of disassemble (stopAtExit = FALSE) or of
\* disassembleProcedure (stopAtExit = TRUE): both leave the loop when
\* disassembleOne returns nullptr, and disassembleProcedure also after it
\* has appended an ExitProc or ExitProcHresult instruction.
PIteration(stopAtExit) ==
    /\ pPhase = "running"
    /\ pOffset < Len(pData)
    /\ \E r \in {disassembleOne(pData, pOffset, pAddress, pError)} :
           /\ pStart' = pOffset
           /\ pOffset' = r.offset
           /\ pLast' = r.instr
           /\ pError' = r.error
           /\ IF r.instr = Null
              THEN /\ pPhase' = "returned"
                   /\ UNCHANGED <<pAddress, pInstrs>>
              ELSE /\ pAddress' = pAddress + r.instr.length
                   /\ pInstrs' = Append(pInstrs, r.instr)
                   /\ pPhase' = IF stopAtExit /\ r.instr.mnemonic \in ProcedureExits
                                THEN "returned" ELSE "running"
    /\ UNCHANGED pData
    /\ UNCHANGED <<structVars, liftVars, emitVars, peVars, x86Vars,
                   readerVars, decompVars,
                   typeVars, unifyVars>>

PDisassembleOne == PIteration(FALSE)

PProcedureOne == PIteration(TRUE)

PDisassembleReturns ==
    /\ pPhase = "running"
    /\ pOffset >= Len(pData)
    /\ pPhase' = "returned"
    /\ UNCHANGED <<pData, pOffset, pAddress, pInstrs, pStart, pLast, pError>>
    /\ UNCHANGED <<structVars, liftVars, emitVars, peVars, x86Vars,
                   readerVars, decompVars,
                   typeVars, unifyVars>>

PCodeNext == PDisassembleOne \/ PDisassembleReturns

\* PCodeDisassembler::disassembleProcedure
ProcedureNext == PProcedureOne \/ PDisassembleReturns

(***************************************************************************)
(* IR expressions handed to the emitter                                    *)
(*                                                                         *)
(* An expression is [kind, name, value, kids]: name is the variable,       *)
(* function or member name, or the target type kind of a cast; value is    *)
(* the int64_t of a constant; kids are the operand expressions in order    *)
(* (operand; left, right; object; array then indices; arguments).          *)
(***************************************************************************)
LeafKinds == {"CONSTANT", "VARIABLE", "TEMPORARY"}

UnaryKinds == {"NEGATE", "NOT"}

BinaryKinds ==
    {"ADD", "SUBTRACT", "MULTIPLY", "DIVIDE", "INT_DIVIDE", "MODULO",
     "EQUAL", "NOT_EQUAL", "LESS_THAN", "LESS_EQUAL", "GREATER_THAN",
     "GREATER_EQUAL", "AND", "OR", "XOR", "CONCATENATE"}

Expr(kind, name, value, kids) ==
    [kind |-> kind, name |-> name, value |-> value, kids |-> kids]

(***************************************************************************)
(* VBCodeGenerator: operator helpers                                       *)
(***************************************************************************)
getBinaryOperator(op) ==
    CASE op = "ADD" -> "+"
      [] op = "SUBTRACT" -> "-"
      [] op = "MULTIPLY" -> "*"
      [] op = "DIVIDE" -> "/"
      [] op = "INT_DIVIDE" -> "\\"
      [] op = "MODULO" -> "Mod"
      [] op = "EQUAL" -> "="
      [] op = "NOT_EQUAL" -> "<>"
      [] op = "LESS_THAN" -> "<"
      [] op = "LESS_EQUAL" -> "<="
      [] op = "GREATER_THAN" -> ">"
      [] op = "GREATER_EQUAL" -> ">="
      [] op = "AND" -> "And"
      [] op = "OR" -> "Or"
      [] op = "XOR" -> "Xor"
      [] op = "CONCATENATE" -> "&"
      [] OTHER -> "?"

getUnaryOperator(op) ==
    CASE op = "NEGATE" -> "-"
      [] op = "NOT" -> "Not "
      [] OTHER -> "?"

getOperatorPrecedence(op) ==
    CASE op \in {"NEGATE", "NOT"} -> 10
      [] op \in {"MULTIPLY", "DIVIDE", "INT_DIVIDE"} -> 9
      [] op = "MODULO" -> 8
      [] op \in {"ADD", "SUBTRACT"} -> 7
      [] op = "CONCATENATE" -> 6
      [] op \in {"EQUAL", "NOT_EQUAL", "LESS_THAN", "LESS_EQUAL",
                 "GREATER_THAN", "GREATER_EQUAL"} -> 5
      [] op = "AND" -> 4
      [] op = "OR" -> 3
      [] op = "XOR" -> 2
      [] OTHER -> 0

needsParentheses(parentOp, childExpr, isLeftChild) ==
    IF childExpr.kind \in LeafKinds THEN FALSE
    ELSE IF getOperatorPrecedence(childExpr.kind) < getOperatorPrecedence(parentOp)
         THEN TRUE
    ELSE IF getOperatorPrecedence(childExpr.kind) = getOperatorPrecedence(parentOp)
            /\ ~isLeftChild
         THEN TRUE
    ELSE FALSE

CastFunction(typeKind) ==
    CASE typeKind = "INTEGER" -> "CInt"
      [] typeKind = "LONG" -> "CLng"
      [] typeKind = "SINGLE" -> "CSng"
      [] typeKind = "DOUBLE" -> "CDbl"
      [] typeKind = "STRING" -> "CStr"
      [] typeKind = "BYTE" -> "CByte"
      [] typeKind = "BOOLEAN" -> "CBool"
      [] typeKind = "DATE" -> "CDate"
      [] typeKind = "VARIANT" -> "CVar"
      [] OTHER -> ""

Parenthesized(str) == "(" \o str \o ")"

(***************************************************************************)
(* VBCodeGenerator::generateExpression and the generators it dispatches to *)
(***************************************************************************)
RECURSIVE generateExpression(_)
RECURSIVE generateList(_)

\* the elements of a vector of expressions, generated and joined with ", "
generateList(exprs) ==
    IF exprs = <<>> THEN ""
    ELSE IF Len(exprs) = 1 THEN generateExpression(exprs[1])
    ELSE generateExpression(exprs[1]) \o ", " \o generateList(Tail(exprs))

generateConstant(expr) == ToString(expr.value)

generateVariable(expr) == expr.name

generateBinaryOp(op, left, right) ==
    (IF needsParentheses(op, left, TRUE)
     THEN Parenthesized(generateExpression(left))
     ELSE generateExpression(left))
    \o " " \o getBinaryOperator(op) \o " " \o
    (IF needsParentheses(op, right, FALSE)
     THEN Parenthesized(generateExpression(right))
     ELSE generateExpression(right))

generateUnaryOp(op, operand) ==
    getUnaryOperator(op) \o
    (IF operand.kind \notin LeafKinds
     THEN Parenthesized(generateExpression(operand))
     ELSE generateExpression(operand))

generateCall(expr) == expr.name \o Parenthesized(generateList(expr.kids))

generateMemberAccess(expr) == generateExpression(expr.kids[1]) \o "." \o expr.name

generateArrayIndex(expr) ==
    generateExpression(expr.kids[1]) \o Parenthesized(generateList(Tail(expr.kids)))

generateCast(expr) ==
    IF CastFunction(expr.name) = ""
    THEN generateExpression(expr.kids[1])
    ELSE CastFunction(expr.name) \o Parenthesized(generateExpression(expr.kids[1]))

generateExpression(expr) ==
    CASE expr.kind = "CONSTANT" -> generateConstant(expr)
      [] expr.kind \in {"VARIABLE", "TEMPORARY"} -> generateVariable(expr)
      [] expr.kind \in UnaryKinds -> generateUnaryOp(expr.kind, expr.kids[1])
      [] expr.kind \in BinaryKinds ->
             generateBinaryOp(expr.kind, expr.kids[1], expr.kids[2])
      [] expr.kind = "CALL" -> generateCall(expr)
      [] expr.kind = "MEMBER_ACCESS" -> generateMemberAccess(expr)
      [] expr.kind = "ARRAY_INDEX" -> generateArrayIndex(expr)
      [] expr.kind = "CAST" -> generateCast(expr)
      [] OTHER -> "'UnknownExpr'"

(***************************************************************************)
(* Emitter state machine: one call of generateExpression on a binary       *)
(* expression whose operands are leaves or expressions over leaves         *)
(***************************************************************************)
\* the expressions the IRExpression factories build over leaves: a constant,
\* a variable, makeUnary, makeBinary, makeCall, makeMemberAccess,
\* makeArrayIndex and makeCast
OperandExprs ==
    {Expr("CONSTANT", "", 1, <<>>), Expr("VARIABLE", "x", 0, <<>>)}
    \cup {Expr(k, "", 0, <<Expr("VARIABLE", "a", 0, <<>>)>>) : k \in UnaryKinds}
    \cup {Expr(k, "", 0, <<Expr("VARIABLE", "a", 0, <<>>),
                           Expr("CONSTANT", "", 2, <<>>)>>) : k \in BinaryKinds}
    \cup {Expr("CALL", "f", 0, <<Expr("VARIABLE", "a", 0, <<>>)>>),
          Expr("MEMBER_ACCESS", "m", 0, <<Expr("VARIABLE", "obj", 0, <<>>)>>),
          Expr("ARRAY_INDEX", "", 0, <<Expr("VARIABLE", "arr", 0, <<>>),
                                       Expr("CONSTANT", "", 0, <<>>)>>),
          Expr("CAST", "LONG", 0, <<Expr("VARIABLE", "a", 0, <<>>)>>)}

EmitInit ==
    /\ eExpr \in {Expr(k, "", 0, <<l, r>>) :
                     k \in BinaryKinds, l \in OperandExprs, r \in OperandExprs}
    /\ ePhase = "ready"
    /\ eText = ""

EmitIdle ==
    /\ eExpr = Null
    /\ ePhase = "idle"
    /\ eText = ""

GenerateExpression ==
    /\ ePhase = "ready"
    /\ eText' = generateExpression(eExpr)
    /\ ePhase' = "done"
    /\ UNCHANGED eExpr
    /\ UNCHANGED <<structVars, liftVars, pcodeVars, peVars, x86Vars,
                   readerVars, decompVars,
                   typeVars, unifyVars>>

EmitNext == GenerateExpression

(***************************************************************************)
(* uint32_t arithmetic                                                     *)
(*                                                                         *)
(* A uint32_t is [hi, lo], its two 16-bit halves; sums and differences     *)
(* wrap modulo 2^32 as unsigned arithmetic does.                           *)
(***************************************************************************)
TwoTo16 == 65536

U32(hi, lo) == [hi |-> hi, lo |-> lo]

Add32(a, b) ==
    [hi |-> (a.hi + b.hi + (a.lo + b.lo) \div TwoTo16) % TwoTo16,
     lo |-> (a.lo + b.lo) % TwoTo16]

Sub32(a, b) ==
    [hi |-> (a.hi - b.hi - (IF a.lo < b.lo THEN 1 ELSE 0) + TwoTo16) % TwoTo16,
     lo |-> (a.lo - b.lo + TwoTo16) % TwoTo16]

Lt32(a, b) == a.hi < b.hi \/ (a.hi = b.hi /\ a.lo < b.lo)

Ge32(a, b) == ~Lt32(a, b)

(***************************************************************************)
(* PESection                                                               *)
(***************************************************************************)
SectionHeader(va, vsize, raw, rawSize) ==
    [VirtualAddress |-> va, VirtualSize |-> vsize, PointerToRawData |-> raw,
     SizeOfRawData |-> rawSize]

\* a PESection: the header and the size of data_, the snapshot of the raw
\* bytes (the bytes themselves are not read by any operation modelled)
PESection(header, dataSize) ==
    [VirtualAddress |-> header.VirtualAddress,
     VirtualSize |-> header.VirtualSize,
     PointerToRawData |-> header.PointerToRawData,
     SizeOfRawData |-> header.SizeOfRawData,
     dataSize |-> dataSize]

containsRVA(section, rva) ==
    /\ Ge32(rva, section.VirtualAddress)
    /\ Lt32(rva, Add32(section.VirtualAddress, section.VirtualSize))

\* the int64_t result: -1 is the pair of halves (-1, -1), the only negative
\* value returned
rvaToOffset(section, rva) ==
    IF ~containsRVA(section, rva)
    THEN U32(0 - 1, 0 - 1)
    ELSE Sub32(rva, section.VirtualAddress)

(***************************************************************************)
(* PEFile                                                                  *)
(***************************************************************************)
\* std::find_if: the first section of sections_ that contains the RVA
getSectionByRVA(sections, rva) ==
    IF \E i \in DOMAIN sections : containsRVA(sections[i], rva)
    THEN sections[CHOOSE i \in DOMAIN sections :
                     /\ containsRVA(sections[i], rva)
                     /\ \A j \in 1..(i - 1) : ~containsRVA(sections[j], rva)]
    ELSE Null

getRVAData(sections, rva) ==
    The({ IF section = Null THEN Null
          ELSE The({ IF sectionOffset.hi < 0 THEN Null
                     ELSE [section |-> section, offset |-> sectionOffset]
                     : sectionOffset \in {rvaToOffset(section, rva)} })
          : section \in {getSectionByRVA(sections, rva)} })

rvaToFileOffset(sections, rva) ==
    The({ IF rvaData = Null THEN Null
          ELSE Add32(rvaData.section.PointerToRawData, rvaData.offset)
          : rvaData \in {getRVAData(sections, rva)} })

\* a uint32_t below 2^31 as a number
ToSize(u) == u.hi * TwoTo16 + u.lo

\* the size of the sectionData that parseSections hands to the PESection
sectionDataSize(header, fileSize) ==
    IF /\ Lt32(U32(0, 0), header.SizeOfRawData)
       /\ Lt32(U32(0, 0), header.PointerToRawData)
       /\ ToSize(header.PointerToRawData) + ToSize(header.SizeOfRawData) <= fileSize
    THEN ToSize(header.SizeOfRawData)
    ELSE 0

\* the bytes [first, first + count) of the section data, returned
BytesRead(first, count, size) ==
    [status |-> "ok", first |-> first, count |-> count, size |-> size]

\* the outcomes of readAtRVA.  With offset above sectionData.size() the
\* clamp size = sectionData.size() - offset wraps in size_t and the vector is
\* built from iterators past the end of the data: undefined behaviour, which
\* ends in std::length_error, stops the process, or copies bytes from
\* outside the section data.
readAtRVA(sections, rva, size) ==
    The({ IF rvaData = Null THEN {BytesRead(0, 0, size)}
          ELSE LET dataSize == rvaData.section.dataSize
                   offset == ToSize(rvaData.offset)
               IN  IF offset > dataSize
                   THEN {[status |-> "length_error", first |-> offset,
                          count |-> 0, size |-> size],
                         [status |-> "crash", first |-> offset,
                          count |-> 0, size |-> size],
                         [status |-> "outside", first |-> offset,
                          count |-> size, size |-> size]}
                   ELSE IF offset + size > dataSize
                        THEN {BytesRead(offset, dataSize - offset, size)}
                        ELSE {BytesRead(offset, size, size)}
          : rvaData \in {getRVAData(sections, rva)} })

(***************************************************************************)
(* PE parser state machine: parseSections copies the section headers of    *)
(* the file into sections_, then one rvaToFileOffset call on an RVA taken  *)
(* from inside a section                                                   *)
(***************************************************************************)
MaxSections == 2

SectionOffsets == {U32(0, 0), U32(0, 1), U32(0, 4095), U32(0, 4096), U32(0, 8191)}

SectionHeaders ==
    {SectionHeader(va, vsize, raw, rawSize) :
        va \in {U32(0, 4096), U32(0, 8192), U32(65535, 61440)},
        vsize \in {U32(0, 0), U32(0, 4096), U32(0, 8192)},
        raw \in {U32(0, 1024), U32(0, 5120)},
        rawSize \in {U32(0, 0), U32(0, 4096)}}

\* fileData_.size(): the raw data of a section fits or does not fit
FileSizes == {4096, 16384}

\* the size argument of readAtRVA
ReadSizes == {0, 1, 4096}

\* VirtualAddress + k is itself a uint32_t (the sum does not wrap)
IsRvaOf(section, k) ==
    /\ Lt32(k, section.VirtualSize)
    /\ Ge32(Add32(section.VirtualAddress, k), section.VirtualAddress)

PEInit ==
    /\ \E n \in 1..MaxSections : peHeaders \in [1..n -> SectionHeaders]
    /\ peSections = <<>>
    /\ pePhase = "parsing"
    /\ peSection = 0
    /\ peK = U32(0, 0)
    /\ peRva = U32(0, 0)
    /\ peResult = Null
    /\ peFileSize \in FileSizes

PEIdle ==
    /\ peHeaders = <<>>
    /\ peSections = <<>>
    /\ pePhase = "idle"
    /\ peSection = 0
    /\ peK = U32(0, 0)
    /\ peRva = U32(0, 0)
    /\ peResult = Null
    /\ peFileSize = 0

\* one iteration of the loop of parseSections
ParseSection ==
    /\ pePhase = "parsing"
    /\ Len(peSections) < Len(peHeaders)
    /\ \E sectionHeader \in {peHeaders[Len(peSections) + 1]} :
           peSections' = Append(peSections,
               PESection(sectionHeader, sectionDataSize(sectionHeader, peFileSize)))
    /\ UNCHANGED <<peHeaders, pePhase, peSection, peK, peRva, peResult,
                   peFileSize>>
    /\ UNCHANGED <<structVars, liftVars, pcodeVars, emitVars, x86Vars,
                   readerVars, decompVars,
                   typeVars, unifyVars>>

ParseReturns ==
    /\ pePhase = "parsing"
    /\ Len(peSections) = Len(peHeaders)
    /\ pePhase' = "parsed"
    /\ UNCHANGED <<peHeaders, peSections, peSection, peK, peRva, peResult,
                   peFileSize>>
    /\ UNCHANGED <<structVars, liftVars, pcodeVars, emitVars, x86Vars,
                   readerVars, decompVars,
                   typeVars, unifyVars>>

RvaToFileOffset ==
    /\ pePhase = "parsed"
    /\ \E i \in DOMAIN peSections : \E k \in SectionOffsets :
           /\ IsRvaOf(peSections[i], k)
           /\ peSection' = i
           /\ peK' = k
           /\ peRva' = Add32(peSections[i].VirtualAddress, k)
           /\ peResult' = rvaToFileOffset(peSections,
                                          Add32(peSections[i].VirtualAddress, k))
    /\ pePhase' = "queried"
    /\ UNCHANGED <<peHeaders, peSections, peFileSize>>
    /\ UNCHANGED <<structVars, liftVars, pcodeVars, emitVars, x86Vars,
                   readerVars, decompVars,
                   typeVars, unifyVars>>

\* one readAtRVA call on an RVA inside the virtual range of a section
ReadAtRVA ==
    /\ pePhase = "parsed"
    /\ \E i \in DOMAIN peSections : \E k \in SectionOffsets :
       \E size \in ReadSizes :
           /\ IsRvaOf(peSections[i], k)
           /\ peSection' = i
           /\ peK' = k
           /\ peRva' = Add32(peSections[i].VirtualAddress, k)
           /\ peResult' \in readAtRVA(peSections,
                                      Add32(peSections[i].VirtualAddress, k), size)
    /\ pePhase' = "read"
    /\ UNCHANGED <<peHeaders, peSections, peFileSize>>
    /\ UNCHANGED <<structVars, liftVars, pcodeVars, emitVars, x86Vars,
                   readerVars, decompVars,
                   typeVars, unifyVars>>

PENext == ParseSection \/ ParseReturns \/ RvaToFileOffset \/ ReadAtRVA

(***************************************************************************)
(* X86Disassembler: readers and ModR/M helpers                             *)
(*                                                                         *)
(* A decoder works on r = [ok, offset, opcode, mod, reg, rm]: ok is what   *)
(* the decoder has returned so far, offset the size_t& cursor, opcode the  *)
(* X86Opcode set in the instruction, mod/reg/rm the fields of the ModR/M   *)
(* byte once decodeModRM has read it.  Only the opcode, the length and the *)
(* raw bytes of the instruction are kept.                                  *)
(***************************************************************************)
\* readByte / readWord / readDword / readSByte / readSDword: n bytes
X86_read(data, r, n) ==
    IF r.ok /\ r.offset + n <= Len(data)
    THEN [r EXCEPT !.offset = @ + n]
    ELSE [r EXCEPT !.ok = FALSE]

X86_decodeModRM(data, r) ==
    IF r.ok /\ r.offset < Len(data)
    THEN [r EXCEPT !.offset = @ + 1,
                   !.mod = (data[r.offset + 1] \div 64) % 4,
                   !.reg = (data[r.offset + 1] \div 8) % 8,
                   !.rm = data[r.offset + 1] % 8]
    ELSE [r EXCEPT !.ok = FALSE]

\* decodeSIB, then the disp32 that follows a SIB byte with base 5 (mod 0)
X86_decodeSIBmod0(data, r) ==
    The({ IF s.ok /\ data[s.offset] % 8 = 5 THEN X86_read(data, s, 4) ELSE s
          : s \in {X86_read(data, r, 1)} })

X86_decodeMemoryOperand(data, r, mod, rm) ==
    IF mod = 3 THEN [r EXCEPT !.ok = FALSE]
    ELSE IF mod = 0
         THEN IF rm = 5 THEN X86_read(data, r, 4)
              ELSE IF rm = 4 THEN X86_decodeSIBmod0(data, r)
              ELSE r
    ELSE IF mod = 1
         THEN X86_read(data, X86_read(data, r, 1), IF rm = 4 THEN 1 ELSE 0)
    ELSE X86_read(data, X86_read(data, r, 4), IF rm = 4 THEN 1 ELSE 0)

\* the r/m operand after decodeModRM: a register for mod 3, else memory
X86_decodeRMOperand(data, m) ==
    IF ~m.ok \/ m.mod = 3 THEN m
    ELSE X86_decodeMemoryOperand(data, m, m.mod, m.rm)

(***************************************************************************)
(* X86Disassembler: instruction decoders                                   *)
(***************************************************************************)
X86_decodeMov(data, r, opcode) ==
    IF opcode \in 136..139
    THEN X86_decodeRMOperand(data, X86_decodeModRM(data, [r EXCEPT !.opcode = "MOV"]))
    ELSE IF opcode \in 176..183 THEN X86_read(data, [r EXCEPT !.opcode = "MOV"], 1)
    ELSE IF opcode \in 184..191 THEN X86_read(data, [r EXCEPT !.opcode = "MOV"], 4)
    ELSE IF opcode \in {198, 199}
         THEN The({ IF ~m.ok \/ m.reg # 0 THEN [m EXCEPT !.ok = FALSE]
                    ELSE X86_read(data, X86_decodeRMOperand(data, m),
                                  IF opcode = 198 THEN 1 ELSE 4)
                    : m \in {X86_decodeModRM(data, [r EXCEPT !.opcode = "MOV"])} })
    ELSE [r EXCEPT !.opcode = "MOV"]

X86_decodeCall(data, r, opcode) ==
    IF opcode = 232 THEN X86_read(data, [r EXCEPT !.opcode = "CALL"], 4)
    ELSE [r EXCEPT !.opcode = "CALL"]

X86_decodeRet(data, r, opcode) ==
    IF opcode = 195 THEN [r EXCEPT !.opcode = "RET"]
    ELSE IF opcode = 194 THEN X86_read(data, [r EXCEPT !.opcode = "RETN"], 2)
    ELSE IF opcode \in {203, 202} THEN [r EXCEPT !.opcode = "RETF"]
    ELSE r

X86_decodeArithmetic(data, r, opcode) ==
    IF opcode \in 0..5 THEN [r EXCEPT !.opcode = "ADD"]
    ELSE IF opcode \in 40..45 THEN [r EXCEPT !.opcode = "SUB"]
    ELSE IF opcode \in 56..61 THEN [r EXCEPT !.opcode = "CMP"]
    ELSE r

\* the variant that takes every reg field other than 0 for DEC
X86_decodeIncDecAnyReg(data, r, opcode) ==
    IF opcode \in 64..71 THEN [r EXCEPT !.opcode = "INC"]
    ELSE IF opcode \in 72..79 THEN [r EXCEPT !.opcode = "DEC"]
    ELSE IF opcode \in {254, 255}
         THEN The({ IF ~m.ok THEN m
                    ELSE X86_decodeRMOperand(data,
                             [m EXCEPT !.opcode = IF m.reg = 0 THEN "INC" ELSE "DEC"])
                    : m \in {X86_decodeModRM(data, r)} })
    ELSE r

X86_decodeIncDec(data, r, opcode) ==
    IF opcode \in 64..71 THEN [r EXCEPT !.opcode = "INC"]
    ELSE IF opcode \in 72..79 THEN [r EXCEPT !.opcode = "DEC"]
    ELSE IF opcode \in {254, 255}
         THEN The({ IF ~m.ok THEN m
                    ELSE IF m.reg \notin {0, 1} THEN [m EXCEPT !.ok = FALSE]
                    ELSE X86_decodeRMOperand(data,
                             [m EXCEPT !.opcode = IF m.reg = 0 THEN "INC" ELSE "DEC"])
                    : m \in {X86_decodeModRM(data, r)} })
    ELSE r

(***************************************************************************)
(* X86Disassembler::disassembleOne                                         *)
(*                                                                         *)
(* The dispatch keeps the branches of the decoders above, in the order of  *)
(* the code; the opcodes of the other decoders (PUSH, POP, JMP, Jcc, LEA,  *)
(* TEST, XOR, AND, OR, LEAVE, NOP) are not among the inputs.               *)
(***************************************************************************)
\* the decoder state after the opcode byte has been read
X86_start == [ok |-> TRUE, offset |-> 1, opcode |-> "NONE", mod |-> 0, reg |-> 0, rm |-> 0]

X86_dispatch(data, opcode) ==
    IF opcode \in 136..139 \/ opcode \in 160..163 \/ opcode \in 176..191
       \/ opcode \in 198..199
    THEN X86_decodeMov(data, X86_start, opcode)
    ELSE IF opcode = 232 \/ opcode = 255 THEN X86_decodeCall(data, X86_start, opcode)
    ELSE IF opcode \in {195, 194, 203, 202} THEN X86_decodeRet(data, X86_start, opcode)
    ELSE IF opcode \in 64..79 THEN X86_decodeIncDec(data, X86_start, opcode)
    ELSE IF opcode \in 0..5 \/ opcode \in 40..45 \/ opcode \in 56..61
         THEN X86_decodeArithmetic(data, X86_start, opcode)
    ELSE [X86_start EXCEPT !.ok = FALSE]

\* disassembleOne whose Unknown fallback reports length 0
X86_disassembleOneEmptyUnknown(data) ==
    IF data = <<>> THEN Null
    ELSE The({ IF ~d.ok
               THEN [opcode |-> "UNKNOWN", length |-> 0, bytes |-> <<data[1]>>]
               ELSE [opcode |-> d.opcode, length |-> ToUint8(d.offset),
                     bytes |-> SubSeq(data, 1, d.offset)]
               : d \in {X86_dispatch(data, data[1])} })

X86_disassembleOne(data) ==
    IF data = <<>> THEN Null
    ELSE The({ IF ~d.ok
               THEN [opcode |-> "UNKNOWN", length |-> 1, bytes |-> <<data[1]>>]
               ELSE [opcode |-> d.opcode, length |-> ToUint8(d.offset),
                     bytes |-> SubSeq(data, 1, d.offset)]
               : d \in {X86_dispatch(data, data[1])} })

(***************************************************************************)
(* x86 decoder state machine: one disassembleOne call on an opcode byte,   *)
(* a ModR/M byte, a SIB byte and up to MaxPad zero bytes, cut to any       *)
(* length                                                                  *)
(***************************************************************************)
MaxPad == 9

X86Opcodes ==
    (136..139) \cup (160..163) \cup (176..191) \cup {198, 199}
    \cup {232, 255} \cup {195, 194, 203, 202} \cup (64..79)
    \cup (0..5) \cup (40..45) \cup (56..61) \cup {244, 254}

\* every ModR/M byte after 0xFF, one byte of every addressing form otherwise
ModRMBytes(opcode) ==
    IF opcode = 255 THEN 0..255
    ELSE {0, 4, 5, 8, 12, 16, 64, 68, 128, 132, 192, 200, 208}

X86Init ==
    /\ \E opcode \in X86Opcodes : \E modrm \in ModRMBytes(opcode) :
       \E sib \in {0, 5} : \E n \in 0..(3 + MaxPad) :
           xData = SubSeq(<<opcode, modrm, sib>> \o [i \in 1..MaxPad |-> 0], 1, n)
    /\ xPhase = "ready"
    /\ xLast = Null
    /\ xOffset = 0

X86Idle ==
    /\ xData = <<>>
    /\ xPhase = "idle"
    /\ xLast = Null
    /\ xOffset = 0

X86DisassembleOne ==
    /\ xPhase = "ready"
    /\ xLast' = X86_disassembleOne(xData)
    /\ xPhase' = "done"
    /\ UNCHANGED <<xData, xOffset>>
    /\ UNCHANGED <<structVars, liftVars, pcodeVars, emitVars, peVars,
                   readerVars, decompVars,
                   typeVars, unifyVars>>

X86Next == X86DisassembleOne

(***************************************************************************)
(* the loops of disassemble (count = 0) and disassembleFunction over every *)
(* buffer of at most MaxLoopData bytes of LoopBytes                        *)
(***************************************************************************)
MaxLoopData == 4

\* ADD r/m8,r8; ADD eax,imm32; INC eax; RETN imm16; RET; HLT (no decoder);
\* the 0xFF group
LoopBytes == {0, 5, 64, 194, 195, 244, 255}

X86Instruction_isReturn(instr) == instr.opcode \in {"RET", "RETN", "RETF"}

X86LoopInit ==
    /\ \E n \in 0..MaxLoopData : xData \in [1..n -> LoopBytes]
    /\ xPhase \in {"disassemble", "disassembleFunction"}
    /\ xLast = Null
    /\ xOffset = 0

\* one evaluation of the loop condition and, when it holds, one iteration
X86LoopIteration(loop, stopAtReturn) ==
    /\ xPhase = loop
    /\ IF xOffset < Len(xData)
       THEN \E instr \in {X86_disassembleOne(
                              SubSeq(xData, xOffset + 1, Len(xData)))} :
                /\ xLast' = instr
                /\ IF instr = Null
                   THEN /\ xPhase' = "returned"
                        /\ UNCHANGED xOffset
                   ELSE /\ xOffset' = xOffset + instr.length
                        /\ xPhase' = IF stopAtReturn /\ X86Instruction_isReturn(instr)
                                     THEN "returned" ELSE loop
       ELSE /\ xPhase' = "returned"
            /\ UNCHANGED <<xLast, xOffset>>
    /\ UNCHANGED xData
    /\ UNCHANGED <<structVars, liftVars, pcodeVars, emitVars, peVars,
                   readerVars, decompVars,
                   typeVars, unifyVars>>

X86Disassemble == X86LoopIteration("disassemble", FALSE)

X86DisassembleFunction == X86LoopIteration("disassembleFunction", TRUE)

X86LoopNext == X86Disassemble \/ X86DisassembleFunction

(***************************************************************************)
(* ByteReader                                                              *)
(*                                                                         *)
(* The reader is its buffer data_ and its cursor offset_.  size_t is       *)
(* modelled with SizeBits bits: sums of sizes are taken modulo SizeModulus *)
(* as the unsigned arithmetic of the code does, and a buffer is shorter    *)
(* than half the range of the type.  A call yields the set of its possible *)
(* outcomes [status, offset, value]: "ok" with the value returned, the     *)
(* name of the exception thrown, or, where the code runs into undefined    *)
(* behaviour, either "crash" (the process stops) or "outside" (the call    *)
(* returns after touching memory outside the buffer).                      *)
(***************************************************************************)
SizeBits == 4

SizeModulus == 2^SizeBits

MaxBuffer == 2

\* the values of a size_t argument
Sizes == 0..(SizeModulus - 1)

\* size_t addition
AddSize(a, b) == (a + b) % SizeModulus

\* the range [from, from + n) lies inside the buffer
InBuffer(data, from, n) == from + n <= Len(data)

\* the n bytes of the buffer at the 0-based position from
BytesAt(data, from, n) == SubSeq(data, from + 1, from + n)

Returned(offset, value) ==
    [status |-> "ok", offset |-> offset, value |-> value]

Thrown(what, offset) ==
    [status |-> what, offset |-> offset, value |-> <<>>]

\* std::string::max_size and std::vector::max_size are below half the range
\* of size_t
ContainerMaxSize == SizeModulus \div 2 - 1

\* ByteReader::canRead: offset_ + n <= data_.size() in size_t
ByteReader_canRead(data, offset, n) == AddSize(offset, n) <= Len(data)

\* ByteReader::seek
ByteReader_seek(data, offset, newOffset) ==
    IF newOffset > Len(data)
    THEN {Thrown("out_of_range", offset)}
    ELSE {Returned(newOffset, <<>>)}

\* ByteReader::skip
ByteReader_skip(data, offset, n) ==
    IF ~ByteReader_canRead(data, offset, n)
    THEN {Thrown("out_of_range", offset)}
    ELSE {Returned(AddSize(offset, n), <<>>)}

\* ByteReader::read<T> with size = sizeof(T)
ByteReader_read(data, offset, size) ==
    IF ~ByteReader_canRead(data, offset, size)
    THEN {Thrown("out_of_range", offset)}
    ELSE IF InBuffer(data, offset, size)
    THEN {Returned(AddSize(offset, size), BytesAt(data, offset, size))}
    ELSE {Thrown("crash", offset), Thrown("outside", AddSize(offset, size))}

\* ByteReader::readString: reserve(length) throws std::length_error for a
\* length above max_size, before any byte is read
ByteReader_readString(data, offset, length) ==
    IF ~ByteReader_canRead(data, offset, length)
    THEN {Thrown("out_of_range", offset)}
    ELSE IF length > ContainerMaxSize
    THEN {Thrown("length_error", offset)}
    ELSE IF InBuffer(data, offset, length)
    THEN {Returned(AddSize(offset, length), BytesAt(data, offset, length))}
    ELSE {Thrown("crash", offset), Thrown("outside", AddSize(offset, length))}

\* ByteReader::readBytes: past the check the vector is built from the
\* iterators begin() + offset_ and begin() + offset_ + length; for a range
\* outside the buffer the iterator arithmetic is undefined, and the vector
\* constructor may throw std::length_error, stop the process or copy
\* memory outside the buffer
ByteReader_readBytes(data, offset, length) ==
    IF ~ByteReader_canRead(data, offset, length)
    THEN {Thrown("out_of_range", offset)}
    ELSE IF InBuffer(data, offset, length)
    THEN {Returned(AddSize(offset, length), BytesAt(data, offset, length))}
    ELSE {Thrown("crash", offset), Thrown("length_error", offset),
          Thrown("outside", AddSize(offset, length))}

\* ByteReader::peek: subspan(offset_, length) with a count above
\* size() - offset_ is undefined: an assertion stops the process or the
\* span returned covers memory outside the buffer
ByteReader_peek(data, offset, length) ==
    IF ~ByteReader_canRead(data, offset, length)
    THEN {Thrown("out_of_range", offset)}
    ELSE IF InBuffer(data, offset, length)
    THEN {Returned(offset, BytesAt(data, offset, length))}
    ELSE {Thrown("crash", offset), Thrown("outside", offset)}

\* ByteReader::peekAt
ByteReader_peekAt(data, offset, at, length) ==
    IF AddSize(at, length) > Len(data)
    THEN {Thrown("out_of_range", offset)}
    ELSE IF InBuffer(data, at, length)
    THEN {Returned(offset, BytesAt(data, at, length))}
    ELSE {Thrown("crash", offset), Thrown("outside", offset)}

\* ByteReader::readAt<T> with size = sizeof(T)
ByteReader_readAt(data, offset, at, size) ==
    IF AddSize(at, size) > Len(data)
    THEN {Thrown("out_of_range", offset)}
    ELSE IF InBuffer(data, at, size)
    THEN {Returned(offset, BytesAt(data, at, size))}
    ELSE {Thrown("crash", offset), Thrown("outside", offset)}

(***************************************************************************)
(* ByteReader state machine: a reader over a buffer, and one action per    *)
(* member function called on it.  bLast records the call: the operation,   *)
(* the range it asked for as (from, len), and its outcome.                 *)
(***************************************************************************)
ReaderBytes == {0, 65}

\* sizeof of the types read: uint8_t, uint16_t, uint32_t, uint64_t
TypeSizes == {1, 2, 4, 8}

ReaderInit ==
    /\ \E n \in 0..MaxBuffer : bData \in [1..n -> ReaderBytes]
    /\ bOffset = 0
    /\ bLast = Null
    /\ bPhase = "ready"

ReaderIdle ==
    /\ bData = <<>>
    /\ bOffset = 0
    /\ bLast = Null
    /\ bPhase = "idle"

\* the call op on the range (from, len) ends with one of the outcomes
ReaderCall(op, from, len, outcomes) ==
    /\ bPhase = "ready"
    /\ \E r \in outcomes :
           /\ bOffset' = r.offset
           /\ bLast' = [op |-> op, from |-> from, len |-> len,
                        status |-> r.status, value |-> r.value]
           /\ bPhase' = IF r.status = "crash" THEN "crashed" ELSE "ready"
    /\ UNCHANGED bData
    /\ UNCHANGED <<structVars, liftVars, pcodeVars, emitVars, peVars, x86Vars,
                   decompVars,
                   typeVars, unifyVars>>

ReaderSeek ==
    \E newOffset \in Sizes :
        ReaderCall("seek", newOffset, 0,
                   ByteReader_seek(bData, bOffset, newOffset))

ReaderSkip ==
    \E n \in Sizes :
        ReaderCall("skip", bOffset, n, ByteReader_skip(bData, bOffset, n))

ReaderRead ==
    \E size \in TypeSizes :
        ReaderCall("read", bOffset, size,
                   ByteReader_read(bData, bOffset, size))

ReaderReadString ==
    \E length \in Sizes :
        ReaderCall("readString", bOffset, length,
                   ByteReader_readString(bData, bOffset, length))

ReaderReadBytes ==
    \E length \in Sizes :
        ReaderCall("readBytes", bOffset, length,
                   ByteReader_readBytes(bData, bOffset, length))

ReaderPeek ==
    \E length \in Sizes :
        ReaderCall("peek", bOffset, length,
                   ByteReader_peek(bData, bOffset, length))

ReaderPeekAt ==
    \E at \in Sizes, length \in Sizes :
        ReaderCall("peekAt", at, length,
                   ByteReader_peekAt(bData, bOffset, at, length))

ReaderReadAt ==
    \E at \in Sizes, size \in TypeSizes :
        ReaderCall("readAt", at, size,
                   ByteReader_readAt(bData, bOffset, at, size))

ReaderNext ==
    \/ ReaderSeek
    \/ ReaderSkip
    \/ ReaderRead
    \/ ReaderReadString
    \/ ReaderReadBytes
    \/ ReaderPeek
    \/ ReaderPeekAt
    \/ ReaderReadAt

(***************************************************************************)
(* Decompiler: structureFunction, then VBCodeGenerator::generateFunction   *)
(*                                                                         *)
(* A function handed to decompile is [name, returnType, params, locals,    *)
(* blocks]; a block is [stmts, succ, target] with succ and target as the   *)
(* structurer reads them, and the expressions of its statements are Expr   *)
(* records.  Every piece the generator writes ends in "\n", so a text is   *)
(* modelled as the sequence of its lines.  `level` is indentLevel_.        *)
(***************************************************************************)
IRVariable(name, type) == [name |-> name, type |-> type]

\* VBCodeGenerator::formatType for the type kinds of the functions below
formatType(type) ==
    CASE type = "VOID" -> "Void"
      [] type = "INTEGER" -> "Integer"
      [] type = "VARIANT" -> "Variant"
      [] OTHER -> "Variant"

\* VBCodeGenerator::getIndent and indent
RECURSIVE getIndent(_)
getIndent(level) == IF level = 0 THEN "" ELSE "    " \o getIndent(level - 1)

indent(level, line) == IF line = "" THEN line ELSE getIndent(level) \o line

\* VBCodeGenerator::generateStatement
generateStatement(stmt) ==
    CASE stmt.kind = "ASSIGN" ->
             stmt.target \o " = " \o generateExpression(stmt.value)
      [] stmt.kind = "RETURN" ->
             IF stmt.value # Null
             THEN "Return " \o generateExpression(stmt.value)
             ELSE "Return"
      [] stmt.kind = "BRANCH" ->
             IF stmt.cond # Null
             THEN "If " \o generateExpression(stmt.cond) \o " Then GoTo Label_"
                      \o ToString(stmt.target)
             ELSE ""
      [] stmt.kind = "GOTO" -> "GoTo Label_" \o ToString(stmt.target)

\* VBCodeGenerator::generateBasicBlock: a line per statement with code
generateBasicBlock(block, level) ==
    LET codes == [i \in 1..Len(block.stmts) |-> generateStatement(block.stmts[i])]
        written == SelectSeq(codes, LAMBDA c : c # "")
    IN  [i \in 1..Len(written) |-> indent(level, written[i])]

\* the condition a structured node holds: that of the first BRANCH statement
\* of its condition block, Null without one
getCondition(node, f) ==
    LET branches == SelectSeq(f.blocks[node.cond].stmts,
                              LAMBDA s : s.kind = "BRANCH")
    IN  IF node.cond = NoBlock \/ branches = <<>> THEN Null
        ELSE branches[1].cond

\* VBCodeGenerator::generateStructuredNode with generateSequence,
\* generateIfThen, generateIfThenElse, generateWhile and generateDoWhile
RECURSIVE generateStructuredNode(_, _, _)
RECURSIVE generateNodes(_, _, _)
RECURSIVE generateBlocks(_, _, _)

generateBlocks(blocks, f, level) ==
    IF blocks = <<>> THEN <<>>
    ELSE generateBasicBlock(f.blocks[Head(blocks)], level)
             \o generateBlocks(Tail(blocks), f, level)

generateNodes(nodes, f, level) ==
    IF nodes = <<>> THEN <<>>
    ELSE generateStructuredNode(Head(nodes), f, level)
             \o generateNodes(Tail(nodes), f, level)

generateStructuredNode(node, f, level) ==
    IF node = Null THEN <<>>
    ELSE
    LET condition == getCondition(node, f)
    IN
    CASE node.kind = "SEQUENCE" ->
             generateBlocks(node.blocks, f, level)
                 \o generateNodes(node.children, f, level)
      [] node.kind = "IF_THEN" ->
             IF condition = Null
             THEN <<indent(level, "' Error: If without condition")>>
             ELSE <<indent(level, "If " \o generateExpression(condition) \o " Then")>>
                      \o generateNodes(node.children, f, level + 1)
                      \o <<indent(level, "End If")>>
      [] node.kind = "IF_THEN_ELSE" ->
             IF condition = Null
             THEN <<indent(level, "' Error: If without condition")>>
             ELSE <<indent(level, "If " \o generateExpression(condition) \o " Then")>>
                      \o (IF node.children # <<>>
                          THEN generateStructuredNode(node.children[1], f, level + 1)
                          ELSE <<>>)
                      \o (IF Len(node.children) > 1
                          THEN <<indent(level, "Else")>>
                                   \o generateStructuredNode(node.children[2], f,
                                                             level + 1)
                          ELSE <<>>)
                      \o <<indent(level, "End If")>>
      [] node.kind = "WHILE" ->
             IF condition = Null
             THEN <<indent(level, "' Error: While without condition")>>
             ELSE <<indent(level, "While " \o generateExpression(condition))>>
                      \o generateNodes(node.children, f, level + 1)
                      \o <<indent(level, "Wend")>>
      [] node.kind = "DO_WHILE" ->
             <<indent(level, "Do")>>
                 \o generateNodes(node.children, f, level + 1)
                 \o <<IF condition # Null
                      THEN indent(level, "Loop While " \o generateExpression(condition))
                      ELSE indent(level, "Loop")>>
      [] OTHER -> <<indent(level, "' Unsupported control structure")>>

\* the parameter list of generateFunctionHeader
RECURSIVE formatParameters(_, _)
formatParameters(params, i) ==
    IF i > Len(params) THEN ""
    ELSE (IF i > 1 THEN ", " ELSE "")
             \o params[i].name \o " As " \o formatType(params[i].type)
             \o formatParameters(params, i + 1)

\* VBCodeGenerator::generateFunctionHeader
generateFunctionHeader(f) ==
    LET isSub == (f.returnType = "VOID")
    IN  (IF isSub THEN "Sub " ELSE "Function ") \o f.name
            \o "(" \o formatParameters(f.params, 1) \o ")"
            \o (IF ~isSub THEN " As " \o formatType(f.returnType) ELSE "")

\* VBCodeGenerator::generateLocalVariables
generateLocalVariables(f, level) ==
    [i \in 1..Len(f.locals) |->
        indent(level, "Dim " \o f.locals[i].name \o " As "
                          \o formatType(f.locals[i].type))]

\* VBCodeGenerator::generateFunctionBody
generateFunctionBody(f, structuredCF, level) ==
    IF structuredCF # Null
    THEN generateStructuredNode(structuredCF, f, level)
    ELSE IF EntryBlockId \in DOMAIN f.blocks
    THEN generateBasicBlock(f.blocks[EntryBlockId], level)
    ELSE <<>>

\* VBCodeGenerator::generateFunction
generateFunction(f, structuredCF) ==
    LET localVars == generateLocalVariables(f, 1)
        isSub == (f.returnType = "VOID")
    IN  <<generateFunctionHeader(f)>>
            \o (IF localVars # <<>> THEN localVars \o <<"">> ELSE <<>>)
            \o generateFunctionBody(f, structuredCF, 1)
            \o <<IF isSub THEN "End Sub" ELSE "End Function">>

(***************************************************************************)
(* Functions handed to decompile                                           *)
(***************************************************************************)
\* the IRExpression that the lifter built, as an Expr record
RECURSIVE LiftedExpr(_)
LiftedExpr(e) ==
    IF e = Null THEN Null
    ELSE IF e.kind = "CONSTANT" THEN Expr("CONSTANT", "", e.value, <<>>)
    ELSE Expr(e.kind, "", 0, <<LiftedExpr(e.left), LiftedExpr(e.right)>>)

\* the IRStatement that the lifter built; the variable of a local store is
\* named "local<index>" (liftStack)
LiftedStmt(s) ==
    CASE s.kind = "ASSIGN" ->
             makeAssign("local" \o ToString(s.target), LiftedExpr(s.value))
      [] s.kind = "BRANCH" -> makeBranch(LiftedExpr(s.cond), s.target)
      [] s.kind = "RETURN" -> makeReturn(LiftedExpr(s.value))
      [] OTHER -> s

\* the elements of a set of block ids in increasing order
RECURSIVE Ascending(_)
Ascending(S) ==
    IF S = {} THEN <<>>
    ELSE LET least == CHOOSE x \in S : \A y \in S : x <= y
         IN  <<least>> \o Ascending(S \ {least})

Reversed(s) == [i \in 1..Len(s) |-> s[Len(s) + 1 - i]]

\* the target of the first BRANCH statement of a statement list
BranchTarget(stmts) ==
    LET branches == SelectSeq(stmts, LAMBDA s : s.kind = "BRANCH")
    IN  IF branches = <<>> THEN NoBlock ELSE branches[1].target

\* The function returned by lift: named by the caller, of return type
\* Variant, without parameters and locals.  The successors of a block are
\* an unordered set; `descending` tells for each block which of the two
\* iteration orders of a set of two the structurer sees.
LiftedFunction(result, descending) ==
    [name |-> "Name", returnType |-> "VARIANT", params |-> <<>>,
     locals |-> <<>>,
     blocks |-> [b \in DOMAIN result.blocks |->
        [stmts |-> [i \in 1..Len(result.blocks[b].stmts) |->
                       LiftedStmt(result.blocks[b].stmts[i])],
         succ |-> IF descending[b]
                  THEN Reversed(Ascending(result.blocks[b].succ))
                  ELSE Ascending(result.blocks[b].succ),
         target |-> BranchTarget(result.blocks[b].stmts)]]]

\* the expressions of the functions built by hand
CountVariable == Expr("VARIABLE", "count", 0, <<>>)

CountPositive ==
    Expr("GREATER_THAN", "", 0, <<CountVariable, Expr("CONSTANT", "", 0, <<>>)>>)

CountMinusOne ==
    Expr("SUBTRACT", "", 0, <<CountVariable, Expr("CONSTANT", "", 1, <<>>)>>)

\* the statements of a block of a function built by hand, by the shape of
\* the block: a block without successor returns, a block with one successor
\* and no branch ends in a Goto, and a block with a branch ends in the
\* Branch and the Goto of its fall-through
BuiltStatements(shape) ==
    IF shape.target # NoBlock
    THEN LET others == SelectSeq(shape.succ, LAMBDA s : s # shape.target)
         IN  <<makeAssign("count", CountMinusOne),
               makeBranch(CountPositive, shape.target),
               makeGoto(IF others = <<>> THEN shape.target ELSE others[1])>>
    ELSE IF shape.succ # <<>>
    THEN <<makeAssign("count", CountMinusOne), makeGoto(shape.succ[1])>>
    ELSE <<makeReturn(CountVariable)>>

\* a function built by hand over the control-flow graph g
BuiltFunction(g) ==
    [name |-> "Countdown", returnType |-> "INTEGER",
     params |-> <<IRVariable("n", "INTEGER")>>,
     locals |-> <<IRVariable("count", "INTEGER")>>,
     blocks |-> [b \in DOMAIN g |->
                    [stmts |-> BuiltStatements(g[b]), succ |-> g[b].succ,
                     target |-> g[b].target]]]

(***************************************************************************)
(* Decompiler state machine.  A run either lifts an instruction list and   *)
(* decompiles the function returned (DecompileLifted), or decompiles a     *)
(* function built by hand (Decompile).  A structurer that recurses without *)
(* end overflows the call stack: dPhase = "overflow".                      *)
(***************************************************************************)
MaxProcInstrs == 4

\* the instruction kinds of the procedures lifted for decompilation
ProcedureKinds == {"LitI4", "StLoc", "BranchF", "Ret", "ExitProc",
                   "ExitProcDecoded"}

ProcedureChoices(n) ==
    {ch \in InstrChoices(n) : ch[1] \in ProcedureKinds}

DecompIdle ==
    /\ dFn = Null
    /\ dPhase = "idle"
    /\ dTree = Null
    /\ dText = <<>>

DecompInit ==
    \/ /\ \E n \in 0..MaxProcInstrs :
             \E ch \in [1..n -> ProcedureChoices(n)] : lInstrs = MakeList(ch, n)
       /\ lPc = 1
       /\ lCtx = NoContext
       /\ lPhase = "ready"
       /\ lResult = Null
       /\ lError = ""
       /\ DecompIdle
    \/ /\ LiftIdle
       /\ dFn \in {BuiltFunction(g) :
                      g \in {f \in [BlockIds -> BlockShapes] : AllReachable(f)}}
       /\ dPhase = "ready"
       /\ dTree = Null
       /\ dText = <<>>

\* Decompiler::decompile on f
Decompiled(f) ==
    \E tree \in {structureFunction(f.blocks)} :
        /\ dFn' = f
        /\ IF tree = Overflow
           THEN /\ dPhase' = "overflow"
                /\ UNCHANGED <<dTree, dText>>
           ELSE /\ dPhase' = "done"
                /\ dTree' = tree
                /\ dText' = generateFunction(f, tree)

DecompileLifted ==
    /\ lPhase = "done"
    /\ dPhase = "idle"
    /\ \E descending \in [DOMAIN lResult.blocks -> BOOLEAN] :
           Decompiled(LiftedFunction(lResult, descending))
    /\ UNCHANGED <<structVars, liftVars, pcodeVars, emitVars, peVars, x86Vars,
                   readerVars,
                   typeVars, unifyVars>>

Decompile ==
    /\ dPhase = "ready"
    /\ Decompiled(dFn)
    /\ UNCHANGED <<structVars, liftVars, pcodeVars, emitVars, peVars, x86Vars,
                   readerVars,
                   typeVars, unifyVars>>

DecompNext == LiftNext \/ DecompileLifted \/ Decompile

(***************************************************************************)
(* IRType                                                                  *)
(***************************************************************************)
VBTypeKinds ==
    {"VOID", "BYTE", "BOOLEAN", "INTEGER", "LONG", "SINGLE", "DOUBLE",
     "CURRENCY", "DATE", "STRING", "OBJECT", "VARIANT", "USER_DEFINED",
     "ARRAY", "UNKNOWN"}

IRType(kind) ==
    [kind |-> kind, isArray |-> FALSE, arrayDimensions |-> 0,
     elementType |-> Null, typeName |-> ""]

makeArray(elementType, dimensions) ==
    [kind |-> "ARRAY", isArray |-> TRUE, arrayDimensions |-> dimensions,
     elementType |-> elementType, typeName |-> ""]

makeUserDefined(typeName) ==
    [kind |-> "USER_DEFINED", isArray |-> FALSE, arrayDimensions |-> 0,
     elementType |-> Null, typeName |-> typeName]

isNumeric(type) ==
    type.kind \in {"BYTE", "INTEGER", "LONG", "SINGLE", "DOUBLE", "CURRENCY"}

\* IRType::operator==
RECURSIVE IRType_equals(_, _)
IRType_equals(a, b) ==
    IF a.kind # b.kind THEN FALSE
    ELSE IF a.isArray # b.isArray THEN FALSE
    ELSE IF a.isArray
         THEN IF a.arrayDimensions # b.arrayDimensions THEN FALSE
              ELSE IF a.elementType # Null /\ b.elementType # Null
                   THEN IRType_equals(a.elementType, b.elementType)
                   ELSE a.elementType = Null /\ b.elementType = Null
    ELSE IF a.kind = "USER_DEFINED" THEN a.typeName = b.typeName
    ELSE TRUE

(***************************************************************************)
(* TypeRecovery                                                            *)
(***************************************************************************)
\* unifyTypes without the String rule: every pair that is neither equal,
\* nor with a Variant, nor numeric gives Variant
unifyTypesNoString(type1, type2) ==
    IF type1.kind = "VARIANT" THEN type2
    ELSE IF type2.kind = "VARIANT" THEN type1
    ELSE IF IRType_equals(type1, type2) THEN type1
    ELSE IF isNumeric(type1) /\ isNumeric(type2)
         THEN IF "DOUBLE" \in {type1.kind, type2.kind} THEN IRType("DOUBLE")
              ELSE IF "SINGLE" \in {type1.kind, type2.kind} THEN IRType("SINGLE")
              ELSE IF "CURRENCY" \in {type1.kind, type2.kind} THEN IRType("CURRENCY")
              ELSE IF "LONG" \in {type1.kind, type2.kind} THEN IRType("LONG")
              ELSE IF "INTEGER" \in {type1.kind, type2.kind} THEN IRType("INTEGER")
              ELSE IRType("BYTE")
    ELSE IRType("VARIANT")

unifyTypes(type1, type2) ==
    IF type1.kind = "VARIANT" THEN type2
    ELSE IF type2.kind = "VARIANT" THEN type1
    ELSE IF IRType_equals(type1, type2) THEN type1
    ELSE IF isNumeric(type1) /\ isNumeric(type2)
         THEN IF "DOUBLE" \in {type1.kind, type2.kind} THEN IRType("DOUBLE")
              ELSE IF "SINGLE" \in {type1.kind, type2.kind} THEN IRType("SINGLE")
              ELSE IF "CURRENCY" \in {type1.kind, type2.kind} THEN IRType("CURRENCY")
              ELSE IF "LONG" \in {type1.kind, type2.kind} THEN IRType("LONG")
              ELSE IF "INTEGER" \in {type1.kind, type2.kind} THEN IRType("INTEGER")
              ELSE IRType("BYTE")
    ELSE IF type1.kind = "STRING" \/ type2.kind = "STRING" THEN IRType("STRING")
    ELSE IRType("VARIANT")

inferBinaryOpType(op, leftType, rightType) ==
    CASE op \in {"ADD", "SUBTRACT", "MULTIPLY", "DIVIDE"} ->
             unifyTypes(leftType, rightType)
      [] op \in {"INT_DIVIDE", "MODULO"} -> IRType("LONG")
      [] op = "CONCATENATE" -> IRType("STRING")
      [] op \in {"EQUAL", "NOT_EQUAL", "LESS_THAN", "LESS_EQUAL",
                 "GREATER_THAN", "GREATER_EQUAL"} -> IRType("BOOLEAN")
      [] op \in {"AND", "OR", "XOR"} -> IRType("BOOLEAN")
      [] OTHER -> IRType("VARIANT")

inferUnaryOpType(op, operandType) ==
    CASE op = "NEGATE" ->
             IF isNumeric(operandType) THEN operandType ELSE IRType("VARIANT")
      [] op = "NOT" -> IRType("BOOLEAN")
      [] OTHER -> IRType("VARIANT")

\* variableTypes_.find, with the Variant default
getVariableType(types, variableId) ==
    IF variableId \in DOMAIN types THEN types[variableId] ELSE IRType("VARIANT")

\* the expressions of type recovery: a constant of a type, a variable by id,
\* a unary or binary operation, a call, a cast to a type
TypedConstant(type) == [kind |-> "CONSTANT", type |-> type]
VariableRef(id) == [kind |-> "VARIABLE", id |-> id]
UnaryExpr(op, operand) == [kind |-> op, operand |-> operand]
BinaryExpr(op, left, right) == [kind |-> op, left |-> left, right |-> right]
CastExpr(type) == [kind |-> "CAST", type |-> type]

RECURSIVE inferExpressionType(_, _)
inferExpressionType(expr, types) ==
    IF expr = Null THEN IRType("VARIANT")
    ELSE CASE expr.kind = "CONSTANT" -> expr.type
           [] expr.kind = "VARIABLE" -> getVariableType(types, expr.id)
           [] expr.kind \in {"NEGATE", "NOT"} ->
                  inferUnaryOpType(expr.kind,
                                   inferExpressionType(expr.operand, types))
           [] expr.kind \in {"ADD", "SUBTRACT", "MULTIPLY", "DIVIDE",
                             "INT_DIVIDE", "MODULO", "EQUAL", "NOT_EQUAL",
                             "LESS_THAN", "LESS_EQUAL", "GREATER_THAN",
                             "GREATER_EQUAL", "AND", "OR", "XOR",
                             "CONCATENATE"} ->
                  inferBinaryOpType(expr.kind,
                                    inferExpressionType(expr.left, types),
                                    inferExpressionType(expr.right, types))
           [] expr.kind = "CAST" -> expr.type
           [] OTHER -> IRType("VARIANT")

\* std::unordered_map::insert keeps the entry of a key already present
insert(types, id, type) ==
    IF id \in DOMAIN types THEN types ELSE types @@ (id :> type)

insert_or_assign(types, id, type) ==
    [k \in DOMAIN types \cup {id} |-> IF k = id THEN type ELSE types[k]]

\* analyzeStatement with every Assign recording the type of the value
analyzeStatementAlwaysAssign(stmt, types) ==
    IF stmt.kind = "ASSIGN"
    THEN insert_or_assign(types, stmt.target,
                          inferExpressionType(stmt.value, types))
    ELSE types

\* the variableTypes_ after analyzeStatement; analyzeExpression, called for
\* the condition of a Branch and the value of a Return, changes nothing
analyzeStatement(stmt, types) ==
    IF stmt.kind = "ASSIGN"
    THEN The({ IF getVariableType(types, stmt.target).kind = "VARIANT"
               THEN insert_or_assign(types, stmt.target, valueType)
               ELSE insert_or_assign(types, stmt.target,
                                     getVariableType(types, stmt.target))
               : valueType \in {inferExpressionType(stmt.value, types)} })
    ELSE types

RECURSIVE insertAll(_, _)
insertAll(types, variables) ==
    IF variables = <<>> THEN types
    ELSE insertAll(insert(types, Head(variables).id, Head(variables).type),
                   Tail(variables))

\* analyzeFunction up to its loop over the blocks
initialTypes(function) ==
    insertAll(insertAll(<<>>, function.parameters), function.localVariables)

RECURSIVE analyzeStatements(_, _)
analyzeStatements(stmts, types) ==
    IF stmts = <<>> THEN types
    ELSE analyzeStatements(Tail(stmts), analyzeStatement(Head(stmts), types))

RECURSIVE analyzeBlocks_(_, _, _)
analyzeBlocks_(function, order, types) ==
    IF order = <<>> THEN types
    ELSE analyzeBlocks_(function, Tail(order),
                        analyzeStatements(function.blocks[Head(order)], types))

\* the variableTypes_ that analyzeFunction leaves when the block map is
\* iterated in the given order
analyzeFunction(function, order) ==
    analyzeBlocks_(function, order, initialTypes(function))

(***************************************************************************)
(* IRFunction: parameters, local variables and their ids                   *)
(***************************************************************************)
IRVariableWithId(id, name, type) == [id |-> id, name |-> name, type |-> type]

NewFunction(blocks) ==
    [parameters |-> <<>>, localVariables |-> <<>>, nextVariableId |-> 0,
     blocks |-> blocks]

addParameter(function, param) ==
    [function EXCEPT !.parameters = Append(@, param)]

createLocalVariable(function, name, type) ==
    [function EXCEPT !.localVariables =
                         Append(@, IRVariableWithId(function.nextVariableId,
                                                    name, type)),
                     !.nextVariableId = @ + 1]

(***************************************************************************)
(* unifyTypes state machine: one call on every pair of UnifyInputs         *)
(***************************************************************************)
UnifyInputs ==
    {IRType(kind) : kind \in VBTypeKinds}
    \cup {makeUserDefined("A"), makeUserDefined("B"),
          makeArray(IRType("INTEGER"), 1), makeArray(IRType("INTEGER"), 2),
          makeArray(IRType("STRING"), 1)}

UnifyInit ==
    /\ uPair \in UnifyInputs \X UnifyInputs
    /\ uResult = Null

UnifyIdle ==
    /\ uPair = <<>>
    /\ uResult = Null

UnifyTypes ==
    /\ uPair # <<>>
    /\ uResult = Null
    /\ uResult' = unifyTypes(uPair[1], uPair[2])
    /\ UNCHANGED uPair
    /\ UNCHANGED <<structVars, liftVars, pcodeVars, emitVars, peVars, x86Vars,
                   readerVars, decompVars, typeVars>>

UnifyNext == UnifyTypes

(***************************************************************************)
(* IRFunction and TypeRecovery state machine: a caller adds parameters     *)
(* with ids of its choice and creates local variables; analyzeFunction     *)
(* walks the blocks in the iteration order of the block map                *)
(***************************************************************************)
MaxVariables == 3

MaxTypeBlocks == 2

\* the ids a caller gives to parameters
ParameterIds == {0, 1}

VariableTypes == {IRType("VARIANT"), IRType("INTEGER")}

Assign(target, value) == [kind |-> "ASSIGN", target |-> target, value |-> value]

AssignedValues ==
    {TypedConstant(IRType("LONG")), TypedConstant(IRType("DOUBLE")),
     VariableRef(0), VariableRef(1),
     BinaryExpr("ADD", VariableRef(0), TypedConstant(IRType("DOUBLE"))),
     UnaryExpr("NOT", VariableRef(1))}

TypeStatements ==
    {Assign(target, value) : target \in {0, 1}, value \in AssignedValues}
    \cup {[kind |-> "RETURN", value |-> VariableRef(0)],
          [kind |-> "BRANCH",
           cond |-> BinaryExpr("LESS_THAN", VariableRef(0), VariableRef(1))]}

BlockBodies ==
    {<<s>> : s \in TypeStatements}
    \cup {<<Assign(0, TypedConstant(IRType("LONG"))), Assign(1, VariableRef(0))>>,
          <<Assign(1, VariableRef(0)), Assign(0, TypedConstant(IRType("DOUBLE")))>>}

\* the iteration orders of a map with the keys S
KeyOrders(S) == {s \in [1..Cardinality(S) -> S] : Range(s) = S}

\* a function under construction
BuildInit ==
    /\ tFunction = NewFunction(<<>>)
    /\ tOrder = <<>>
    /\ tBlock = 0
    /\ tStmt = 0
    /\ tTypes = <<>>
    /\ tPhase = "building"

\* a function with two local variables (ids 0 and 1) and up to
\* MaxTypeBlocks blocks, handed to analyzeFunction
TypeInit ==
    /\ \E t0 \in VariableTypes, t1 \in VariableTypes :
       \E n \in 1..MaxTypeBlocks : \E blocks \in [0..(n - 1) -> BlockBodies] :
           tFunction = [createLocalVariable(
                            createLocalVariable(NewFunction(<<>>), "v0", t0),
                            "v1", t1)
                        EXCEPT !.blocks = blocks]
    /\ tOrder \in KeyOrders(DOMAIN tFunction.blocks)
    /\ tBlock = 0
    /\ tStmt = 0
    /\ tTypes = <<>>
    /\ tPhase = "ready"

TypeIdle ==
    /\ tFunction = Null
    /\ tOrder = <<>>
    /\ tBlock = 0
    /\ tStmt = 0
    /\ tTypes = <<>>
    /\ tPhase = "idle"

VariableCount == Len(tFunction.parameters) + Len(tFunction.localVariables)

AddParameter ==
    /\ tPhase = "building"
    /\ VariableCount < MaxVariables
    /\ \E id \in ParameterIds, type \in VariableTypes :
           tFunction' = addParameter(tFunction, IRVariableWithId(id, "p", type))
    /\ UNCHANGED <<tOrder, tBlock, tStmt, tTypes, tPhase>>
    /\ UNCHANGED <<structVars, liftVars, pcodeVars, emitVars, peVars, x86Vars,
                   readerVars, decompVars, unifyVars>>

CreateLocalVariable ==
    /\ tPhase = "building"
    /\ VariableCount < MaxVariables
    /\ \E type \in VariableTypes :
           tFunction' = createLocalVariable(tFunction, "v", type)
    /\ UNCHANGED <<tOrder, tBlock, tStmt, tTypes, tPhase>>
    /\ UNCHANGED <<structVars, liftVars, pcodeVars, emitVars, peVars, x86Vars,
                   readerVars, decompVars, unifyVars>>

VariablesNext == AddParameter \/ CreateLocalVariable

\* analyzeFunction up to the loop over the blocks
AnalyzeBegin ==
    /\ tPhase = "ready"
    /\ tTypes' = initialTypes(tFunction)
    /\ tBlock' = 1
    /\ tStmt' = 1
    /\ tPhase' = "analyzing"
    /\ UNCHANGED <<tFunction, tOrder>>
    /\ UNCHANGED <<structVars, liftVars, pcodeVars, emitVars, peVars, x86Vars,
                   readerVars, decompVars, unifyVars>>

\* the statement that the loops of analyzeFunction reach next
CurrentStatement == tFunction.blocks[tOrder[tBlock]][tStmt]

\* one analyzeStatement call of the inner loop
AnalyzeStatement ==
    /\ tPhase = "analyzing"
    /\ tBlock <= Len(tOrder)
    /\ tTypes' = analyzeStatement(CurrentStatement, tTypes)
    /\ IF tStmt < Len(tFunction.blocks[tOrder[tBlock]])
       THEN /\ tStmt' = tStmt + 1
            /\ UNCHANGED tBlock
       ELSE /\ tStmt' = 1
            /\ tBlock' = tBlock + 1
    /\ UNCHANGED <<tFunction, tOrder, tPhase>>
    /\ UNCHANGED <<structVars, liftVars, pcodeVars, emitVars, peVars, x86Vars,
                   readerVars, decompVars, unifyVars>>

\* the end of the loop; propagateConstraints does nothing
AnalyzeReturns ==
    /\ tPhase = "analyzing"
    /\ tBlock > Len(tOrder)
    /\ tPhase' = "done"
    /\ UNCHANGED <<tFunction, tOrder, tBlock, tStmt, tTypes>>
    /\ UNCHANGED <<structVars, liftVars, pcodeVars, emitVars, peVars, x86Vars,
                   readerVars, decompVars, unifyVars>>

TypeNext == AnalyzeBegin \/ AnalyzeStatement \/ AnalyzeReturns

InitLifter == LiftInit /\ StructIdle /\ PCodeIdle /\ EmitIdle /\ PEIdle /\ X86Idle
    /\ ReaderIdle /\ DecompIdle /\ TypeIdle /\ UnifyIdle

SpecLifter == InitLifter /\ [][LiftNext]_vars

InitStructurer == StructInit /\ LiftIdle /\ PCodeIdle /\ EmitIdle /\ PEIdle /\ X86Idle
    /\ ReaderIdle /\ DecompIdle /\ TypeIdle /\ UnifyIdle

InitPCode == PCodeInit /\ StructIdle /\ LiftIdle /\ EmitIdle /\ PEIdle /\ X86Idle
    /\ ReaderIdle /\ DecompIdle /\ TypeIdle /\ UnifyIdle

InitEmitter == EmitInit /\ StructIdle /\ LiftIdle /\ PCodeIdle /\ PEIdle /\ X86Idle
    /\ ReaderIdle /\ DecompIdle /\ TypeIdle /\ UnifyIdle

SpecEmitter == InitEmitter /\ [][EmitNext]_vars

InitPE == PEInit /\ StructIdle /\ LiftIdle /\ PCodeIdle /\ EmitIdle /\ X86Idle
    /\ ReaderIdle /\ DecompIdle /\ TypeIdle /\ UnifyIdle

SpecPE == InitPE /\ [][PENext]_vars

InitX86 == X86Init /\ StructIdle /\ LiftIdle /\ PCodeIdle /\ EmitIdle /\ PEIdle
    /\ ReaderIdle /\ DecompIdle /\ TypeIdle /\ UnifyIdle

SpecX86 == InitX86 /\ [][X86Next]_vars

InitX86Loop == X86LoopInit /\ StructIdle /\ LiftIdle /\ PCodeIdle /\ EmitIdle
    /\ PEIdle /\ ReaderIdle /\ DecompIdle /\ TypeIdle /\ UnifyIdle

\* the loops run to their end: an enabled iteration is eventually taken
SpecX86Loop == InitX86Loop /\ [][X86LoopNext]_vars /\ WF_vars(X86LoopNext)

InitUnify == UnifyInit /\ StructIdle /\ LiftIdle /\ PCodeIdle /\ EmitIdle
    /\ PEIdle /\ X86Idle /\ ReaderIdle /\ DecompIdle /\ TypeIdle

SpecUnify == InitUnify /\ [][UnifyNext]_vars

InitVariables == BuildInit /\ StructIdle /\ LiftIdle /\ PCodeIdle /\ EmitIdle
    /\ PEIdle /\ X86Idle /\ ReaderIdle /\ DecompIdle /\ UnifyIdle

SpecVariables == InitVariables /\ [][VariablesNext]_vars

InitTypes == TypeInit /\ StructIdle /\ LiftIdle /\ PCodeIdle /\ EmitIdle
    /\ PEIdle /\ X86Idle /\ ReaderIdle /\ DecompIdle /\ UnifyIdle

SpecTypes == InitTypes /\ [][TypeNext]_vars

SpecPCode == InitPCode /\ [][PCodeNext]_vars

SpecProcedure == InitPCode /\ [][ProcedureNext]_vars

SpecStructurer == InitStructurer /\ [][StructNext]_vars

InitReader == ReaderInit /\ StructIdle /\ LiftIdle /\ PCodeIdle /\ EmitIdle
    /\ PEIdle /\ X86Idle /\ DecompIdle /\ TypeIdle /\ UnifyIdle

SpecReader == InitReader /\ [][ReaderNext]_vars

InitDecompiler == DecompInit /\ StructIdle /\ PCodeIdle /\ EmitIdle /\ PEIdle
    /\ X86Idle /\ ReaderIdle /\ TypeIdle /\ UnifyIdle

SpecDecompiler == InitDecompiler /\ [][DecompNext]_vars

(***************************************************************************)
(* Blocks listed in a structured tree, nested children included            *)
(***************************************************************************)
RECURSIVE TreeBlocks(_)
RECURSIVE ForestBlocks(_)
TreeBlocks(n) == n.blocks \o ForestBlocks(n.children)
ForestBlocks(ns) ==
    IF ns = <<>> THEN <<>> ELSE TreeBlocks(Head(ns)) \o ForestBlocks(Tail(ns))

\* C1: every block of the input CFG is listed exactly once in the tree
\* returned by structureFunction (none dropped, none listed twice).
C1_EveryBlockOnce ==
    sPhase = "returned" =>
        \A b \in DOMAIN fn : Count(TreeBlocks(sTree), b) = 1

\* C2: structureFunction terminates on every finite CFG and returns a tree:
\* the recursion through analyzeRegion never repeats without end.
C2_Terminates == sPhase # "overflow"

(***************************************************************************)
(* Properties of the lifter                                                *)
(***************************************************************************)
\* C3: after every successful lift, for all blocks A and B of the returned
\* function, B is a successor of A exactly when A is a predecessor of B.
C3_PredSuccConsistent ==
    lPhase = "done" =>
        \A a, b \in DOMAIN lResult.blocks :
            (b \in lResult.blocks[a].succ) <=> (a \in lResult.blocks[b].pred)

\* a successful lift whose function has a block with two successors (a
\* conditional branch connected to its target and to its fall-through)
C3_Witness ==
    /\ lPhase = "done"
    /\ \E a \in DOMAIN lResult.blocks :
          Cardinality(lResult.blocks[a].succ) = 2

\* C7: whenever lifting an instruction pops the empty evaluation stack, lift
\* fails: it returns no function and the error names the mnemonic of that
\* instruction (the last one the second pass has taken up).
C7_EmptyPopFails ==
    lCtx.underflow =>
        /\ lPhase = "failed"
        /\ lResult = Null
        /\ lError = LiftFailure(lInstrs[lPc - 1].mnemonic)

(***************************************************************************)
(* Properties of the P-Code decoder                                        *)
(***************************************************************************)
\* C4: for every successful disassemble-one call, the length reported in the
\* instruction equals the number of bytes the offset advanced, whatever the
\* operand format and however long a string literal is.
C4_LengthIsAdvance ==
    pLast # Null => pLast.length = pOffset - pStart

\* C8: an opcode without metadata entry (a primary opcode, or a secondary
\* byte after a prefix 0xFB..0xFF) makes disassemble-one succeed with an
\* instruction of category Unknown, never fail.
C8_UnknownOpcodeDecodes ==
    LET opcode == ByteAt(pData, pStart)
        unknownPrimary == ~isExtendedOpcode(opcode) /\ getOpcodeInfo(opcode) = Null
        unknownSecondary ==
            /\ isExtendedOpcode(opcode)
            /\ pStart + 1 < Len(pData)
            /\ getExtendedOpcodeInfo(opcode, ByteAt(pData, pStart + 1)) = Null
    IN  (pOffset > pStart /\ (unknownPrimary \/ unknownSecondary)) =>
            (pLast # Null /\ pLast.category = "UNKNOWN")

(***************************************************************************)
(* Properties of the emitter                                               *)
(***************************************************************************)
\* the expression kinds that are operators of the precedence table
IsOperatorExpression(expr) == expr.kind \in UnaryKinds \cup BinaryKinds

\* the rule for wrapping a child of a binary expression
ParenthesesRequired(parentOp, child, isRightOperand) ==
    /\ IsOperatorExpression(child)
    /\ \/ getOperatorPrecedence(child.kind) < getOperatorPrecedence(parentOp)
       \/ /\ getOperatorPrecedence(child.kind) = getOperatorPrecedence(parentOp)
          /\ isRightOperand

PrintedChild(parentOp, child, isRightOperand) ==
    IF ParenthesesRequired(parentOp, child, isRightOperand)
    THEN Parenthesized(generateExpression(child))
    ELSE generateExpression(child)

\* C5: the text of a binary expression is left, operator, right, where a
\* child is wrapped in parentheses exactly when it is an operator expression
\* of strictly lower precedence than the parent, or of equal precedence and
\* the right operand; leaves and all other children are printed bare.
C5_ParenthesesIffRequired ==
    ePhase = "done" =>
        eText = PrintedChild(eExpr.kind, eExpr.kids[1], FALSE)
                \o " " \o getBinaryOperator(eExpr.kind) \o " " \o
                PrintedChild(eExpr.kind, eExpr.kids[2], TRUE)
(***************************************************************************)
(* Properties of the PE parser                                             *)
(***************************************************************************)
\* the sum of two uint32_t as a number: the high half is not reduced, so a
\* sum of 2^32 or more equals no uint32_t
ExactSum(a, b) ==
    [hi |-> a.hi + b.hi + (a.lo + b.lo) \div TwoTo16,
     lo |-> (a.lo + b.lo) % TwoTo16]

\* C6: for every section of the parsed image and every k below its
\* VirtualSize, rvaToFileOffset(VirtualAddress + k) succeeds and returns
\* that section's PointerToRawData + k.
C6_RoundTripInEverySection ==
    pePhase = "queried" =>
        /\ peResult # Null
        /\ peResult = ExactSum(peSections[peSection].PointerToRawData, peK)
(***************************************************************************)
(* Properties of the x86 decoder                                           *)
(***************************************************************************)
\* C9: after opcode byte 0xFF and a ModR/M byte whose reg field is neither
\* 0 nor 1, disassembleOne returns no INC and no DEC instruction, and
\* decodeIncDec declines the byte pair (returns false).
C9_FFNotIncDec ==
    (/\ xPhase = "done"
     /\ Len(xData) >= 2
     /\ xData[1] = 255
     /\ (xData[2] \div 8) % 8 \notin {0, 1}) =>
        /\ xLast.opcode \notin {"INC", "DEC"}
        /\ ~X86_decodeIncDec(xData, X86_start, 255).ok

\* 0xFF with reg field 2 (the indirect CALL) has been decoded as CALL
C9_Witness ==
    /\ xPhase = "done"
    /\ Len(xData) >= 2
    /\ xData[1] = 255
    /\ (xData[2] \div 8) % 8 = 2
    /\ xLast.opcode = "CALL"

\* the byte at a 0-based position of the buffer, 0 past its end
X86ByteOrZero(data, i) == IF i < Len(data) THEN data[i + 1] ELSE 0

\* bytes of the ModR/M byte, the SIB byte and the displacement it calls for
ModRMFormLength(modrm, sib) ==
    LET mod == (modrm \div 64) % 4
        rm == modrm % 8
    IN  1 + (IF mod # 3 /\ rm = 4 THEN 1 ELSE 0)
          + (CASE mod = 0 /\ rm = 5 -> 4
               [] mod = 0 /\ rm = 4 /\ sib % 8 = 5 -> 4
               [] mod = 1 -> 1
               [] mod = 2 -> 4
               [] OTHER -> 0)

\* the length of the complete encoding of the instruction at the start of
\* the buffer, by the format of its opcode: opcode byte, ModR/M form,
\* immediate or offset bytes
EncodingLength(data) ==
    LET opcode == data[1]
        form == ModRMFormLength(X86ByteOrZero(data, 1), X86ByteOrZero(data, 2))
    IN  CASE opcode \in 136..139 -> 1 + form
          [] opcode \in 160..163 -> 5
          [] opcode \in 176..183 -> 2
          [] opcode \in 184..191 -> 5
          [] opcode = 198 -> 1 + form + 1
          [] opcode = 199 -> 1 + form + 4
          [] opcode = 232 -> 5
          [] opcode = 255 -> 1 + form
          [] opcode \in {195, 203} -> 1
          [] opcode \in {194, 202} -> 3
          [] opcode \in 64..79 -> 1
          [] opcode % 8 \in 0..3 -> 1 + form
          [] opcode % 8 = 4 -> 2
          [] opcode % 8 = 5 -> 5

\* C10: an instruction decoded from a buffer that holds its complete
\* encoding has that encoding's length, and its raw bytes are exactly the
\* bytes of the encoding (so the next instruction starts at the boundary).
C10_LengthCoversEncoding ==
    (/\ xPhase = "done"
     /\ xLast # Null
     /\ xLast.opcode # "UNKNOWN"
     /\ EncodingLength(xData) <= Len(xData)) =>
        /\ xLast.length = EncodingLength(xData)
        /\ xLast.bytes = SubSeq(xData, 1, EncodingLength(xData))

\* C11: lifting an empty instruction list succeeds and returns a function
\* whose entry block holds exactly one statement, a Return without value.
C11_EmptyLiftSucceeds ==
    (lInstrs = <<>> /\ lPhase \in {"done", "failed"}) =>
        /\ lPhase = "done"
        /\ lResult # Null
        /\ lResult.blocks[EntryBlockId].stmts = <<makeReturn(Null)>>

\* the block that ends in the conditional Branch lifted by the previous step:
\* the only predecessor of the fall-through block that liftBranch created
\* and made the current block
BranchBlock ==
    CHOOSE b \in DOMAIN lCtx.blocks : lCtx.blocks[lCtx.cur].pred = {b}

\* the block that receives the statements of the instruction at lPc
ReceivingBlock == switchBlock(lInstrs[lPc], lCtx).cur

\* a conditional branch has just been lifted and the instruction that
\* follows it is lifted by this step
LiftsInstructionAfterBranch ==
    /\ lPhase = "running"
    /\ lPc > 1
    /\ lPc <= Len(lInstrs)
    /\ lInstrs[lPc - 1].isConditionalBranch
    /\ lPc' = lPc + 1
    /\ lPhase' # "failed"

\* C15: a block whose last statement is a Branch has exactly two successors,
\* the branch target block and the fall-through block, which is the block
\* that receives the statements of the instruction following the branch.
C15_BranchSuccessors ==
    [][LiftsInstructionAfterBranch =>
          LET stmts == lCtx.blocks[BranchBlock].stmts
              branch == stmts[Len(stmts)]
          IN  /\ branch.kind = "BRANCH"
              /\ lCtx'.blocks[BranchBlock].succ = {branch.target, ReceivingBlock}
              /\ Cardinality(lCtx'.blocks[BranchBlock].succ) = 2]_vars

Terminators == {"BRANCH", "GOTO", "RETURN"}

\* C16: in every block of a lifted function a Branch, Goto or Return is the
\* last statement of its block; no statement follows a terminator.
C16_TerminatorIsLast ==
    (lPhase = "done") =>
        \A b \in DOMAIN lResult.blocks :
            \A i \in 1..(Len(lResult.blocks[b].stmts) - 1) :
                lResult.blocks[b].stmts[i].kind \notin Terminators

\* the blocks reachable from the blocks of `seen` through successor edges
RECURSIVE ReachableFrom(_, _)
ReachableFrom(blocks, seen) ==
    LET next == seen \cup UNION {blocks[b].succ : b \in seen}
    IN  IF next = seen THEN seen ELSE ReachableFrom(blocks, next)

\* the context in which the second pass starts
SecondPassStart ==
    firstPass(lInstrs, 1, [NoContext EXCEPT !.blocks = createBasicBlock(<<>>),
                                            !.cur = EntryBlockId])

\* the block that received the first instruction
FirstInstructionBlock == switchBlock(lInstrs[1], SecondPassStart).cur

\* lifting the first instruction appended a statement to its block
FirstInstructionHasStatements ==
    liftInstruction(lInstrs[1], switchBlock(lInstrs[1], SecondPassStart))
        .ctx.blocks[FirstInstructionBlock].stmts # <<>>

\* C17: after a successful lift the statements of the first instruction are
\* in the entry block or in a block reachable from it through successor
\* edges, also when a branch targets the address of the first instruction.
C17_FirstInstructionReachable ==
    (lPhase = "done" /\ FirstInstructionHasStatements) =>
        FirstInstructionBlock \in ReachableFrom(lResult.blocks, {EntryBlockId})

\* the comparison operator that each comparison mnemonic stands for
ComparisonOperator == [GtI4 |-> "GREATER_THAN", CgtI4 |-> "GREATER_THAN"]

\* C19: a comparison instruction, whatever the spelling of its mnemonic, pops
\* the right operand and then the left operand and pushes one Binary
\* expression with the matching operator: the stack shrinks by one.
C19_ComparisonPopsTwoPushesOne ==
    [][(/\ lPhase = "running"
        /\ lPc <= Len(lInstrs)
        /\ lInstrs[lPc].category = "COMPARISON"
        /\ Len(lCtx.stack) >= 2
        /\ lPc' = lPc + 1) =>
          LET n == Len(lCtx.stack)
          IN  lCtx'.stack =
                  SubSeq(lCtx.stack, 1, n - 2)
                      \o <<makeBinary(ComparisonOperator[lInstrs[lPc].mnemonic],
                                      lCtx.stack[n - 1], lCtx.stack[n])>>]_vars

\* the metadata entry of the opcode of a decoded instruction, Null for none
MetadataOf(instr) ==
    IF isExtendedOpcode(instr.opcode)
    THEN getExtendedOpcodeInfo(instr.opcode, instr.extOpcode)
    ELSE getOpcodeInfo(instr.opcode)

\* C20: an instruction record produced by disassemble-one carries the
\* is_branch, is_conditional_branch, is_call and is_return flags of its
\* opcode's metadata and, for a branch opcode, the decoded branch offset.
C20_FlagsFromMetadata ==
    (pLast # Null /\ MetadataOf(pLast) # Null) =>
        /\ pLast.isBranch = MetadataOf(pLast).isBranch
        /\ pLast.isConditionalBranch = MetadataOf(pLast).isConditionalBranch
        /\ pLast.isCall = MetadataOf(pLast).isCall
        /\ pLast.isReturn = MetadataOf(pLast).isReturn
        /\ MetadataOf(pLast).isBranch =>
               pLast.branchOffset = pLast.operands[1].value

(***************************************************************************)
(* Properties of the ByteReader                                            *)
(***************************************************************************)
\* C13: every ByteReader operation reports failure when the range it is
\* asked for is not entirely inside the buffer, for every n and offset
\* including those whose sum exceeds the range of the size type, and the
\* cursor never leaves [0, size].
C13_OutOfRangeFails ==
    /\ bOffset \in 0..Len(bData)
    /\ (bLast # Null /\ ~InBuffer(bData, bLast.from, bLast.len)) =>
           bLast.status \in {"out_of_range", "length_error"}

(***************************************************************************)
(* Properties of the decompiler                                            *)
(***************************************************************************)
\* C12: decompiling the lift of the single instruction ExitProc gives
\* exactly three lines: the header "Sub Name()", the line "Return" indented
\* by four spaces, and "End Sub".
C12_ExitProcIsEmptySub ==
    (/\ dPhase = "done"
     /\ Len(lInstrs) = 1
     /\ lInstrs[1].mnemonic = "ExitProc") =>
        dText = <<"Sub Name()", "    Return", "End Sub">>

\* the While and Do-While nodes of a structured tree
RECURSIVE LoopNodes(_)
LoopNodes(node) ==
    (IF node.kind \in {"WHILE", "DO_WHILE"} THEN {node} ELSE {})
        \cup UNION {LoopNodes(node.children[i]) : i \in 1..Len(node.children)}

\* the statements of the blocks listed in a sequence of block ids
BlockStatements(blocks, f) ==
    UNION {Range(f.blocks[blocks[i]].stmts) : i \in 1..Len(blocks)}

\* The statements a loop node captures: the Branch and the Goto of its
\* condition block, and the Gotos of its body back to the condition block.
CapturedStatements(node, f) ==
    {s \in Range(f.blocks[node.cond].stmts) : s.kind \in {"BRANCH", "GOTO"}}
        \cup {s \in BlockStatements(TreeBlocks(node), f) :
                 s.kind = "GOTO" /\ s.target = node.cond}

\* the statements of the blocks of a loop node that the node does not capture
OtherStatements(node, f) ==
    BlockStatements(TreeBlocks(node), f) \ CapturedStatements(node, f)

MaxIndent == 4

\* the lines that would print the captured statements as jumps
JumpLines(node, f) ==
    {indent(level, generateStatement(s)) :
        level \in 0..MaxIndent, s \in CapturedStatements(node, f)}

\* C14: the text of a recognised While or Do-While loop renders the loop
\* with the structured keywords only; the Branch and Goto statements that
\* the loop captures are not emitted as "If ... Then GoTo Label_n" or
\* "GoTo Label_n" lines.  Loops in which another statement prints the same
\* line as a captured one are left out.
C14_LoopHidesCapturedJumps ==
    (dPhase = "done") =>
        \A node \in LoopNodes(dTree) :
            (\A s \in OtherStatements(node, dFn) :
                 generateStatement(s) \notin
                     {generateStatement(c) : c \in CapturedStatements(node, dFn)})
            => Range(generateStructuredNode(node, dFn, 0))
                   \cap JumpLines(node, dFn) = {}

\* a conditional branch at i whose fall-through path runs without branch to
\* a return located before the branch target, and whose target is a return
\* instruction of the list
BranchOverReturn(instrs, i, t) ==
    /\ i \in 1..Len(instrs)
    /\ t \in (i + 2)..Len(instrs)
    /\ instrs[i].isConditionalBranch
    /\ TargetAddr(instrs[i]) = instrs[t].address
    /\ \A j \in 1..(t - 1) : j # i => ~instrs[j].isBranch
    /\ \A j \in 1..(i - 1) : instrs[j].category # "CONTROL_FLOW"
    /\ \E r \in (i + 1)..(t - 1) : instrs[r].isReturn
    /\ instrs[t].category = "CONTROL_FLOW" /\ ~instrs[t].isBranch

\* C18: for a conditional branch whose fall-through path ends in a return
\* located before the branch target, the lifted function holds the
\* statements of both paths: the branch-target block holds the statements
\* of the instructions at and after the target address.
C18_BothPathsLifted ==
    (lPhase = "done") =>
        \A i, t \in 1..Len(lInstrs) :
            BranchOverReturn(lInstrs, i, t) =>
                /\ lInstrs[t].address \in DOMAIN lCtx.map
                /\ \E s \in Range(lResult.blocks[lCtx.map[lInstrs[t].address]].stmts) :
                       s.kind = "RETURN"

\* C21: disassembleProcedure returns the instructions up to and including
\* the first ExitProc or ExitProcHresult, or up to the end of the buffer
\* when there is none; it does not stop at any earlier byte.
C21_StopsAtExitOrEnd ==
    (pPhase = "returned") =>
        /\ \A i \in 1..(Len(pInstrs) - 1) :
               pInstrs[i].mnemonic \notin ProcedureExits
        /\ \/ pOffset >= Len(pData)
           \/ /\ pInstrs # <<>>
              /\ pInstrs[Len(pInstrs)].mnemonic \in ProcedureExits


RECURSIVE BfsBefore(_, _, _)
\* the pairs <<x, y>> of blocks such that every breadth-first traversal from
\* the blocks of seen reaches x before y (x lies in an earlier layer)
BfsBefore(blocks, seen, frontier) ==
    LET next == (UNION {blocks[b].succ : b \in frontier} \cap DOMAIN blocks) \ seen
    IN  IF next = {} THEN {}
        ELSE {<<x, y>> : x \in seen, y \in next}
                 \cup BfsBefore(blocks, seen \cup next, next)

\* C22: in every lifted function the block ids follow a breadth-first
\* numbering from the entry block: a block reached earlier by the
\* breadth-first traversal has the smaller id.
C22_IdsInBfsOrder ==
    (lPhase = "done") =>
        \A p \in BfsBefore(lResult.blocks, {EntryBlockId}, {EntryBlockId}) :
            p[1] < p[2]


\* the two loops of the x86 disassembler
X86Loops == {"disassemble", "disassembleFunction"}

\* C23: the loops of disassemble and disassembleFunction make progress and
\* terminate on every finite buffer: every iteration, the Unknown fallback
\* of length 1 included, advances the offset by at least one byte and never
\* beyond the end of the buffer, and the loop returns.
C23_LoopsAdvanceAndTerminate ==
    /\ [](xPhase \in X86Loops \cup {"returned"} => xOffset <= Len(xData))
    /\ [][(xPhase \in X86Loops /\ xOffset < Len(xData)) =>
              /\ xLast' # Null
              /\ xLast'.length >= 1
              /\ xOffset' = xOffset + xLast'.length
              /\ xOffset' <= Len(xData)]_vars
    /\ (xPhase \in X86Loops ~> xPhase = "returned")

\* a loop returned at the end of a buffer of several instructions whose last
\* one is the Unknown fallback
C23_UnknownAtEndOfBuffer ==
    /\ xPhase = "returned"
    /\ xLast # Null
    /\ xLast.opcode = "UNKNOWN"
    /\ xOffset = Len(xData)
    /\ xOffset > xLast.length


\* C24: readAtRVA(rva, size) on an rva inside a section's virtual range
\* returns nothing or at most size bytes that all lie inside the raw-byte
\* snapshot of the containing section, also when the rva is past the raw
\* size of the section or the raw data was not loaded.
C24_ReadInsideSnapshot ==
    (pePhase = "read") =>
        /\ peResult.status = "ok"
        /\ peResult.count <= peResult.size
        /\ peResult.count = 0 \/
             peResult.first + peResult.count
                 <= getSectionByRVA(peSections, peRva).dataSize


\* the Goto and Branch statements of the blocks of f
JumpStatements(f) ==
    {s \in UNION {Range(f.blocks[b].stmts) : b \in DOMAIN f.blocks} :
        s.kind \in {"GOTO", "BRANCH"}}

\* the lines "Label_n:" at every indentation
LabelLines(n) ==
    {indent(level, "Label_" \o ToString(n) \o ":") : level \in 0..MaxIndent}

\* C25: for every "GoTo Label_n" or "If ... Then GoTo Label_n" line of the
\* emitted text of a function, the text of the same function contains a
\* "Label_n:" line (which is to precede the statements of block n).
C25_JumpTargetsLabelled ==
    (dPhase = "done") =>
        \A s \in JumpStatements(dFn) : \A level \in 0..MaxIndent :
            indent(level, generateStatement(s)) \in Range(dText)
                => Range(dText) \cap LabelLines(s.target) # {}

(***************************************************************************)
(* Properties of type recovery                                             *)
(***************************************************************************)
\* the widening order Double > Single > Currency > Long > Integer > Byte
WideningRank ==
    [BYTE |-> 1, INTEGER |-> 2, LONG |-> 3, CURRENCY |-> 4, SINGLE |-> 5,
     DOUBLE |-> 6]

Wider(a, b) == IF WideningRank[a.kind] >= WideningRank[b.kind] THEN a ELSE b

\* the result for a pair without a special case, in both statements of C27
UnifiedOrElse(a, b, otherwise) ==
    IF a = b THEN a
    ELSE IF a.kind = "VARIANT" THEN b
    ELSE IF b.kind = "VARIANT" THEN a
    ELSE IF isNumeric(a) /\ isNumeric(b) THEN Wider(a, b)
    ELSE otherwise

\* C27 as stated: unifyTypes(a, b) returns a when a equals b, the other type
\* when one of them is Variant, the wider type when both are numeric, and
\* Variant for every other pair of types.
C27_UnifyAsStated ==
    (uResult # Null) =>
        uResult = UnifiedOrElse(uPair[1], uPair[2], IRType("VARIANT"))

\* C27 amended: as stated, except that a pair of different types that are
\* not both numeric and of which one is String gives String; every other
\* pair gives Variant.
C27_UnifyWithString ==
    (uResult # Null) =>
        uResult = UnifiedOrElse(uPair[1], uPair[2],
                      IF "STRING" \in {uPair[1].kind, uPair[2].kind}
                      THEN IRType("STRING") ELSE IRType("VARIANT"))

\* unifyTypes was called on String and Integer
C27_StringWithInteger ==
    /\ uResult # Null
    /\ uPair = <<IRType("STRING"), IRType("INTEGER")>>
    /\ uResult = IRType("STRING")


\* the variables of a function: its parameters and its local variables,
\* each named by the list that holds it and its position there
FunctionVariables(function) ==
    {<<"parameter", i>> : i \in DOMAIN function.parameters}
    \cup {<<"local", i>> : i \in DOMAIN function.localVariables}

VariableId(function, v) ==
    IF v[1] = "parameter" THEN function.parameters[v[2]].id
    ELSE function.localVariables[v[2]].id

\* C28: within one function no two distinct variables, parameters and
\* local variables counted together, have the same id.
C28_VariableIdsUnique ==
    (tPhase = "building") =>
        \A v \in FunctionVariables(tFunction) :
        \A w \in FunctionVariables(tFunction) :
            v # w => VariableId(tFunction, v) # VariableId(tFunction, w)


\* the type that variableTypes_ records for an id, Variant without entry
RecordedType(types, id) ==
    IF id \in DOMAIN types THEN types[id] ELSE IRType("VARIANT")

\* the ids that the statements and declarations of the model mention
TypedIds == {0, 1}

\* C26: during type recovery, processing Assign(target, value) changes the
\* recorded type of target only when that type is Variant, and then to the
\* inferred type of value; no other statement and no other variable is
\* affected, and a variable whose recorded type is not Variant keeps it for
\* the rest of the pass.
C26_AssignRefinesOnlyVariant ==
    [][(tPhase = "analyzing" /\ tBlock <= Len(tOrder)) =>
          /\ \A id \in TypedIds :
                 RecordedType(tTypes', id) =
                     IF /\ CurrentStatement.kind = "ASSIGN"
                        /\ CurrentStatement.target = id
                        /\ RecordedType(tTypes, id).kind = "VARIANT"
                     THEN inferExpressionType(CurrentStatement.value, tTypes)
                     ELSE RecordedType(tTypes, id)
          /\ \A id \in TypedIds :
                 RecordedType(tTypes, id).kind # "VARIANT"
                     => RecordedType(tTypes', id) = RecordedType(tTypes, id)]_vars

\* the pass has given a type to a variable declared Variant and has then
\* met an assignment of another type to it
C26_TypedThenAssignedAgain ==
    /\ tPhase = "analyzing"
    /\ tBlock <= Len(tOrder)
    /\ CurrentStatement.kind = "ASSIGN"
    /\ \E v \in Range(tFunction.localVariables) :
           /\ v.id = CurrentStatement.target
           /\ v.type.kind = "VARIANT"
           /\ RecordedType(tTypes, v.id).kind # "VARIANT"
           /\ inferExpressionType(CurrentStatement.value, tTypes)
                  # RecordedType(tTypes, v.id)

\* C30: the variable types that analyzeFunction records do not depend on
\* the order in which the blocks are visited: every iteration order of the
\* block map gives the final mapping of the order taken.
C30_TypesIndependentOfBlockOrder ==
    (tPhase = "done") =>
        \A order \in KeyOrders(DOMAIN tFunction.blocks) :
            analyzeFunction(tFunction, order) = tTypes


\* the functions that differ from f only in the iteration order of the
\* successor sets of their blocks
Reorderings(f) ==
    {g \in [DOMAIN f -> BlockShapes] :
        \A b \in DOMAIN f :
            /\ g[b].target = f[b].target
            /\ Len(g[b].succ) = Len(f[b].succ)
            /\ Range(g[b].succ) = Range(f[b].succ)}

\* C29: structureFunction returns the same tree whatever the iteration
\* order of the unordered successor sets of the blocks.
C29_TreeIndependentOfSuccessorOrder ==
    (sPhase = "returned") =>
        \A g \in Reorderings(fn) : structureFunction(g) = sTree

====
